---- MODULE Spec2Model ----
(***************************************************************************)
(* Verification model of usb-over-ip.                                      *)
(*                                                                         *)
(* The repository holds two server implementations.  The variable impl,    *)
(* fixed at Init, selects which one runs:                                  *)
(*   "driver"    - src/server (session manager, URB forwarder) on top of   *)
(*                 the kernel driver src/driver (registry, pending URBs);  *)
(*   "userspace" - src/userspace/vusb_userspace.c.                         *)
(* Specifications SpecWire and SpecRecv model the byte streams of one      *)
(* session socket (server write side, enhanced-client read side).          *)
(***************************************************************************)
EXTENDS Naturals, Integers, Sequences, FiniteSets, TLC

(* ------------------------------ bounds --------------------------------- *)
\* sessions ever accepted (NextSessionId is capped here)
MaxSessions == 2
\* slots of the client arrays (Config.MaxClients, scaled down)
MaxClients == 2
\* slots of the device registries (VUSB_MAX_DEVICES, scaled down)
MaxDevices == 2
\* URBs ever created (driver NextUrbId / per-device NextUrbId are capped here)
MaxUrbs == 2
\* device ids ever handed out by the userspace server (NextDeviceId cap)
MaxDeviceIds == 2
\* frames put on one socket
MaxFrames == 4
\* device ids the clients name for their own devices
MaxRemoteId == 2
\* the same towards src/server, which stores the id and never reads it
MaxServerRemoteId == 1
\* width of the driver's NextUrbId counter (ULONG, 32 bits) in SpecForward
UrbIdBits == 1
\* URBs the forwarder pulls in SpecForward
MaxPulled == 4
\* header.Sequence values on the wire in SpecSession
MaxSequence == 2
\* frames the enhanced client sends in SpecSequence
MaxSeqSent == 5
\* TransferBufferLength of the URB in SpecComplete, in bytes
MaxBuf == 1
\* ActualLength fields in the URB_COMPLETE frames of SpecComplete, in bytes
MaxActual == 2

(* ------------------------- protocol constants -------------------------- *)
VUSB_STATUS_SUCCESS == 0
VUSB_STATUS_ERROR == 2
VUSB_STATUS_CANCELED == 5
VUSB_STATUS_NO_DEVICE == 6
VUSB_STATUS_NO_MEMORY == 8

Sessions == 1..MaxSessions
LocalIds == 1..MaxDevices
UrbIds == 1..MaxUrbs
RemoteIds == 1..MaxRemoteId
ServerRemoteIds == 1..MaxServerRemoteId
\* USB device ids that can arrive in a frame: 0 and one past the registry too
WireDeviceIds == 0..(MaxDevices + 1)
\* statuses a client puts into URB_COMPLETE
WireStatuses == {VUSB_STATUS_SUCCESS, VUSB_STATUS_ERROR}

VARIABLES
    impl,              \* which server implementation runs
    \* ---- src/server: session manager and URB forwarder ----
    Clients,           \* ctx->Clients[]: slot -> session id, 0 = NULL
    NextSessionId,     \* ctx->NextSessionId
    ClientDevices,     \* client->Devices[]: session -> slot -> entry
    PendingList,       \* urbCtx->PendingList, head first
    \* ---- src/driver ----
    Devices,           \* controllerContext->Devices[]: slot -> DeviceId, 0 = NULL
    PendingUrbList,    \* deviceContext->PendingUrbList, head first
    NextUrbId,         \* VusbUrbCreate's NextUrbId
    \* ---- observations ----
    Completed,         \* UrbId -> NTSTATUS values the request was completed with
    UrbDevice,         \* UrbId -> DeviceId the URB was created for, 0 = not created
    DetachedUrbs,      \* URBs whose device was removed by a DEVICE_DETACH
    DeadUrbs,          \* URBs whose device left the registry (detach or teardown)
    Owner,             \* registry slot -> session whose DEVICE_ATTACH filled it, 0 = none
    Ended,             \* sessions whose connection was torn down
    Answered,          \* URBs for which a matching URB_COMPLETE came while the server tracked them
    SubmitSent,        \* SUBMIT_URB frames ServerUrbForward sent, in order
    Pulled,            \* UrbIds IOCTL_VUSB_GET_PENDING_URB returned, in order
    Expired,           \* forwarded URBs whose deadline has passed
    \* ---- src/userspace ----
    UsDevices,         \* ctx->Devices[]: slot -> VUSB_US_DEVICE
    NextDeviceId,      \* ctx->NextDeviceId
    DeviceIds,         \* client->DeviceIds[0..DeviceCount-1], per session
    UsCompleted,       \* <<DeviceId, UrbId>> -> statuses the URB was completed with
    \* ---- one session socket, server write side (SpecWire) ----
    Sent,              \* what the server's send() calls put on the socket, in order
    SentUp,            \* what the client's send() calls put on the socket, in order
    ListLeft,          \* device infos VusbServerHandleDeviceList still has to send
    ListFrame,         \* frame number of the DEVICE_LIST response being sent
    NextFrame,         \* frames started so far
    \* ---- one session socket, enhanced client read side (SpecRecv) ----
    Inbound,           \* bytes the server wrote and nobody read yet, in 8-byte units
    RecvNeed,          \* units of payload ReceiveThread waits for, 0 = it waits for a header
    UserNeed,          \* units the interactive thread's recv() waits for, 0 = none
    Unanswered,        \* units of the response the server still owes, 0 = none
    Readers,           \* tasks that took bytes from the socket
    Dispatched,        \* what ReceiveThread handed to ProcessServerMessage
    \* ---- one connection, the receive loop at its end (SpecSession) ----
    Receiver,          \* the loop that reads: VusbClientThread, ClientThread or ReceiveThread
    DriverHandle,      \* ctx->DriverHandle of the driver-build server
    SimNextId,         \* static nextId of VusbServerPluginDevice (simulation mode)
    Connected,         \* client->Connected / ctx->Base.Connected: the loop still runs
    Authenticated,     \* a CONNECT of this connection was answered with CONNECT_RESP
    Request,           \* the header the loop read last
    PayloadRead,       \* the loop called recv() for the payload of Request
    Handled,           \* Request was handed to the message switch
    Replies,           \* frames the loop sent while it handled Request
    Attached,          \* local ids given out in attach responses and not detached since
    Fatal,             \* first frame read that is malformed: none, header, length or command
    LaterHandled,      \* a frame was handed to the message switch after Fatal
    \* ---- the enhanced client's sequence counter (SpecSequence) ----
    Sequence,          \* ctx->Sequence of VUSB_CLIENT_CONTEXT
    Loaded,            \* thread -> value of ctx->Sequence it read for its "++", -1 = none
    Numbered,          \* thread -> header.Sequence of the frame it built and has not sent, -1 = none
    SeqSent,           \* header.Sequence of the frames the client sent, in send order
    \* ---- the data path of one URB completion (SpecComplete) ----
    Urb,               \* the submitter's URB: direction, buffer, and where it is
    Submit,            \* the SUBMIT_URB frame the client has been sent for the URB
    Cancel,            \* CANCEL_URB frame for the URB: none, inbound (in the client's socket) or handled
    Wire,              \* URB_COMPLETE frames received and not handled yet
    Observed,          \* what the submitter got when its URB was completed
    \* ---- server shutdown (SpecShutdown) ----
    Running,           \* ctx->Running of the server
    CleanedUp,         \* VusbServerCleanup / VusbUsCleanup has returned
    AtShutdown,        \* URBs that were pending when the cleanup began
    \* ---- the driver's pending-URB queue and its IOCTLs (SpecPull) ----
    Handed,            \* URB entries GET_PENDING_URB returned, in the order it returned them
    Ioctl,             \* the last IOCTL the driver handled and what it answered
    Frames,            \* command and size of the URB frames sent, in send order
    \* ---- the forwarder between its lookup and its send (SpecRace) ----
    Forwarding,        \* the URB ServerUrbForward works on and the client it found
    \* ---- the basic client and its socket (SpecBasic) ----
    Waiting,           \* the request whose response the client is in recv() for
    ToServer,          \* requests the client sent and the server has not handled
    LastRead           \* the request that returned last and the bytes it read

drvVars == <<Clients, NextSessionId, ClientDevices, PendingList, Devices,
             PendingUrbList, NextUrbId, Completed, UrbDevice, DetachedUrbs, DeadUrbs,
             Owner, Ended>>

usVars == <<UsDevices, NextDeviceId, DeviceIds, UsCompleted>>

sessVars == <<Receiver, DriverHandle, SimNextId, Connected, Authenticated, Request,
              PayloadRead, Handled, Replies, Attached, Fatal, LaterHandled>>

seqVars == <<Sequence, Loaded, Numbered, SeqSent>>

cmpVars == <<Urb, Submit, Cancel, Wire, Observed>>

shutVars == <<Running, CleanedUp, AtShutdown>>

pullVars == <<Handed, Ioctl, Frames>>

raceVars == <<Forwarding>>

basicVars == <<Waiting, ToServer, LastRead>>

moreVars == <<pullVars, raceVars, basicVars>>

extVars == <<sessVars, seqVars, cmpVars, shutVars, moreVars>>

streamVars == <<Sent, SentUp, ListLeft, ListFrame, NextFrame, Inbound, RecvNeed,
                UserNeed, Unanswered, Readers, Dispatched>>

sockVars == <<streamVars, extVars>>

logVars == <<Answered, SubmitSent, Pulled, Expired>>

mainVars == <<impl, drvVars, usVars, logVars, extVars>>

wireVars == <<Sent, SentUp, ListLeft, ListFrame>>

recvVars == <<Inbound, RecvNeed, UserNeed, Unanswered, Readers, Dispatched>>

vars == <<impl, drvVars, usVars, logVars, sockVars>>

(* ------------------------- sequence helpers ---------------------------- *)
RemoveAt(s, i) == SubSeq(s, 1, i - 1) \o SubSeq(s, i + 1, Len(s))

\* smallest element of a non-empty set of naturals
Min(S) == CHOOSE x \in S : \A y \in S : x <= y

(* ============================ src/driver =============================== *)

\* VusbCreateVirtualDevice: the slot search "for (i = 0; i < MaxDevices; i++)
\* if (Devices[i] == NULL)"
FreeSlots(devs) == {i \in 0..(MaxDevices - 1) : devs[i] = 0}

DeviceCount(devs) == Cardinality({i \in 0..(MaxDevices - 1) : devs[i] # 0})

\* VusbCreateVirtualDevice: the id the new device gets, 0 when it fails
\* with STATUS_TOO_MANY_NODES
CreatedDeviceId(devs) ==
    IF DeviceCount(devs) >= MaxDevices \/ FreeSlots(devs) = {}
    THEN 0
    ELSE Min(FreeSlots(devs)) + 1

VusbCreateVirtualDevice(devs) ==
    IF CreatedDeviceId(devs) = 0
    THEN devs
    ELSE [devs EXCEPT ![CreatedDeviceId(devs) - 1] = CreatedDeviceId(devs)]

\* VusbDestroyVirtualDevice: TRUE when the id names a plugged device
CanDestroy(devs, id) ==
    /\ id # 0
    /\ id <= MaxDevices
    /\ devs[id - 1] # 0

\* VusbDestroyVirtualDevice: clears the slot; the pending URB list is not
\* touched
VusbDestroyVirtualDevice(devs, id) ==
    IF CanDestroy(devs, id) THEN [devs EXCEPT ![id - 1] = 0] ELSE devs

\* VusbFindUrb: position of the first entry with this UrbId, 0 = not found
\* (the DeviceId is not compared)
FindUrbIndex(list, urbId) ==
    IF \E i \in 1..Len(list) : list[i].UrbId = urbId
    THEN Min({i \in 1..Len(list) : list[i].UrbId = urbId})
    ELSE 0

\* a VusbFindUrb that would leave the entry it returns on the list
ListAfterFindKeepsEntry(list, urbId) == list

\* VusbFindUrb: RemoveEntryList takes the entry it returns off the list
ListAfterFind(list, urbId) ==
    IF FindUrbIndex(list, urbId) = 0
    THEN list
    ELSE RemoveAt(list, FindUrbIndex(list, urbId))

\* VusbHandleCompleteUrb: VUSB_STATUS -> NTSTATUS
NtStatusOf(status) ==
    IF status = VUSB_STATUS_SUCCESS THEN "STATUS_SUCCESS" ELSE "STATUS_UNSUCCESSFUL"

\* VusbCompleteUrb: WdfRequestCompleteWithInformation on the URB's request
VusbCompleteUrb(log, urbId, ntstatus) ==
    [log EXCEPT ![urbId] = Append(@, ntstatus)]

\* a completion path that would not look at what VusbFindUrb returned
CompletedWithoutFind(list, log, urbId, ntstatus) ==
    VusbCompleteUrb(log, urbId, ntstatus)

\* VusbHandleCompleteUrb / VusbCancelUrb: "urbEntry = VusbFindUrb(...)", and
\* VusbCompleteUrb only when an entry was found
CompletedAfterFind(list, log, urbId, ntstatus) ==
    IF FindUrbIndex(list, urbId) = 0
    THEN log
    ELSE VusbCompleteUrb(log, urbId, ntstatus)

\* IOCTL_VUSB_COMPLETE_URB and IOCTL_VUSB_CANCEL_URB share this shape:
\* VusbFindUrb, then VusbCompleteUrb when an entry was found
DriverFindAndComplete(urbId, ntstatus) ==
    /\ PendingUrbList' = ListAfterFind(PendingUrbList, urbId)
    /\ Completed' = CompletedAfterFind(PendingUrbList, Completed, urbId, ntstatus)

\* SERVER_PENDING_URB list: an entry for (deviceId, urbId) is on it
InPendingList(list, deviceId, urbId) ==
    \E i \in 1..Len(list) : list[i].DeviceId = deviceId /\ list[i].UrbId = urbId

\* URBs that die with device id: bookkeeping for the properties
UrbsOf(id) == {u \in UrbIds : UrbDevice[u] = id}

(* ============================ src/server =============================== *)

\* a zeroed VUSB_CLIENT_DEVICE
UntrackedDevice == [Active |-> FALSE, DeviceId |-> 0, RemoteId |-> 0]

\* client->Devices[] after calloc
EmptyTracking == [i \in 0..(MaxDevices - 1) |-> UntrackedDevice]

\* device ids with an Active entry in a client's Devices[]
TrackedIds(track) ==
    {track[i].DeviceId : i \in {j \in 0..(MaxDevices - 1) : track[j].Active}}

\* VusbServerHandleDeviceAttach: "if (result == 0 && deviceId > 0)" the first
\* entry that is not Active takes the device; a full array drops it silently
TrackDevice(track, deviceId, remoteId) ==
    IF deviceId > 0 /\ \E i \in 0..(MaxDevices - 1) : ~track[i].Active
    THEN [track EXCEPT ![Min({i \in 0..(MaxDevices - 1) : ~track[i].Active})] =
             [Active |-> TRUE, DeviceId |-> deviceId, RemoteId |-> remoteId]]
    ELSE track

\* VusbServerHandleDeviceDetach: the first Active entry with this DeviceId is
\* cleared.  The code only resets Active; the ids left behind are never read
\* while Active is FALSE, so the entry is recorded as a zeroed one.
UntrackDevice(track, deviceId) ==
    IF \E i \in 0..(MaxDevices - 1) : track[i].Active /\ track[i].DeviceId = deviceId
    THEN [track EXCEPT ![Min({i \in 0..(MaxDevices - 1) :
                              track[i].Active /\ track[i].DeviceId = deviceId})] =
             UntrackedDevice]
    ELSE track

ConnectedSessions == {Clients[i] : i \in 1..MaxClients} \ {0}

\* VusbServerAcceptClient: first slot with Clients[i] == NULL, 0 = server full
FreeClientSlot ==
    IF \E i \in 1..MaxClients : Clients[i] = 0
    THEN Min({i \in 1..MaxClients : Clients[i] = 0})
    ELSE 0

VusbServerAcceptClient ==
    /\ impl = "driver"
    /\ NextSessionId < MaxSessions
    /\ FreeClientSlot # 0
    /\ NextSessionId' = NextSessionId + 1
    /\ Clients' = [Clients EXCEPT ![FreeClientSlot] = NextSessionId + 1]
    /\ UNCHANGED <<sockVars, logVars, usVars, impl, ClientDevices, PendingList, Devices,
                   PendingUrbList, NextUrbId, Completed, UrbDevice,
                   DetachedUrbs, DeadUrbs, Owner, Ended>>

\* VusbCreateVirtualDevice: the NTSTATUS it returns
CreateStatus(devs) ==
    IF CreatedDeviceId(devs) = 0 THEN "STATUS_TOO_MANY_NODES" ELSE "STATUS_SUCCESS"

\* WdfRequestRetrieveOutputBuffer in VusbHandlePluginDevice: the handler has
\* checked OutputBufferLength >= sizeof(VUSB_PLUGIN_RESPONSE) before
RetrieveOutputBufferStatus == "STATUS_SUCCESS"

\* VusbHandlePluginDevice: "status = VusbCreateVirtualDevice(...)" is
\* overwritten by "status = WdfRequestRetrieveOutputBuffer(...)" before
\* pluginResponse->Status is computed from it
PluginStatus(devs) ==
    LET created == CreateStatus(devs)
        status  == RetrieveOutputBufferStatus
    IN IF status = "STATUS_SUCCESS"
       THEN VUSB_STATUS_SUCCESS
       ELSE VUSB_STATUS_ERROR

\* VusbServerPluginDevice: 0 when the IOCTL succeeded and the response says
\* VUSB_STATUS_SUCCESS, -1 otherwise
VusbServerPluginDevice(devs) ==
    IF PluginStatus(devs) = VUSB_STATUS_SUCCESS THEN 0 ELSE -1

\* VusbServerHandleDeviceAttach: the VUSB_DEVICE_ATTACH_RESPONSE it sends
AttachResponse(devs) ==
    [Full     |-> FreeSlots(devs) = {},
     Status   |-> IF VusbServerPluginDevice(devs) = 0
                  THEN VUSB_STATUS_SUCCESS
                  ELSE VUSB_STATUS_ERROR,
     DeviceId |-> IF VusbServerPluginDevice(devs) = 0
                  THEN CreatedDeviceId(devs)
                  ELSE 0]

\* DEVICE_ATTACH from session s for its device remoteId
VusbServerHandleDeviceAttach(s, remoteId) ==
    /\ impl = "driver"
    /\ s \in ConnectedSessions
    /\ Devices' = VusbCreateVirtualDevice(Devices)
    /\ ClientDevices' = [ClientDevices EXCEPT
           ![s] = TrackDevice(@, AttachResponse(Devices).DeviceId, remoteId)]
    /\ Owner' = IF CreatedDeviceId(Devices) = 0
                THEN Owner
                ELSE [Owner EXCEPT ![CreatedDeviceId(Devices) - 1] = s]
    /\ UNCHANGED <<sockVars, logVars, usVars, impl, Clients, NextSessionId, PendingList,
                   PendingUrbList, NextUrbId, Completed, UrbDevice,
                   DetachedUrbs, DeadUrbs, Ended>>

\* DEVICE_DETACH{deviceId} from session s: VusbServerUnplugDevice is called
\* with the id from the frame, then the sender's own tracking is cleared
VusbServerHandleDeviceDetach(s, deviceId) ==
    /\ impl = "driver"
    /\ s \in ConnectedSessions
    /\ Devices' = VusbDestroyVirtualDevice(Devices, deviceId)
    /\ DetachedUrbs' = IF CanDestroy(Devices, deviceId)
                       THEN DetachedUrbs \cup UrbsOf(deviceId)
                       ELSE DetachedUrbs
    /\ DeadUrbs' = IF CanDestroy(Devices, deviceId)
                   THEN DeadUrbs \cup UrbsOf(deviceId)
                   ELSE DeadUrbs
    /\ Owner' = IF CanDestroy(Devices, deviceId)
                THEN [Owner EXCEPT ![deviceId - 1] = 0]
                ELSE Owner
    /\ ClientDevices' = [ClientDevices EXCEPT ![s] = UntrackDevice(@, deviceId)]
    /\ UNCHANGED <<sockVars, logVars, usVars, impl, Clients, NextSessionId, PendingList,
                   PendingUrbList, NextUrbId, Completed, UrbDevice, Ended>>

\* URB_COMPLETE from session s: the frame's ids go to IOCTL_VUSB_COMPLETE_URB
\* (VusbHandleCompleteUrb) as they are; the sender is not looked at
VusbServerHandleUrbComplete(s, deviceId, urbId, status) ==
    /\ impl = "driver"
    /\ s \in ConnectedSessions
    /\ DriverFindAndComplete(urbId, NtStatusOf(status))
    /\ Answered' = IF InPendingList(PendingList, deviceId, urbId)
                   THEN Answered \cup {urbId}
                   ELSE Answered
    /\ UNCHANGED <<sockVars, usVars, impl, Clients, NextSessionId, ClientDevices,
                   PendingList, Devices, NextUrbId, UrbDevice, DetachedUrbs, DeadUrbs,
                   Owner, Ended, SubmitSent, Pulled, Expired>>

\* registry after VusbServerDisconnectClient unplugged every tracked device
DevicesAfterDisconnect(devs, track) ==
    [i \in 0..(MaxDevices - 1) |->
        IF devs[i] # 0 /\ (i + 1) \in TrackedIds(track) THEN 0 ELSE devs[i]]

\* VusbClientThread leaves its loop (peer close, recv error, bad header,
\* oversized payload, DISCONNECT) and runs VusbServerDisconnectClient
VusbServerDisconnectClient(s) ==
    /\ impl = "driver"
    /\ s \in ConnectedSessions
    /\ Clients' = [i \in 1..MaxClients |-> IF Clients[i] = s THEN 0 ELSE Clients[i]]
    /\ Devices' = DevicesAfterDisconnect(Devices, ClientDevices[s])
    /\ Owner' = [i \in 0..(MaxDevices - 1) |->
           IF DevicesAfterDisconnect(Devices, ClientDevices[s])[i] = 0
           THEN 0 ELSE Owner[i]]
    /\ DeadUrbs' = DeadUrbs \cup
           UNION {UrbsOf(d) : d \in {e \in TrackedIds(ClientDevices[s]) :
                                         CanDestroy(Devices, e)}}
    /\ ClientDevices' = [ClientDevices EXCEPT ![s] = EmptyTracking]
    /\ Ended' = Ended \cup {s}
    /\ UNCHANGED <<sockVars, logVars, usVars, impl, NextSessionId, PendingList, PendingUrbList,
                   NextUrbId, Completed, UrbDevice, DetachedUrbs>>

\* ServerUrbFindClientForDevice: first client slot whose Devices[] holds an
\* Active entry with this id; 0 = NULL
ServerUrbFindClientForDevice(deviceId) ==
    IF \E i \in 1..MaxClients :
          Clients[i] # 0 /\ deviceId \in TrackedIds(ClientDevices[Clients[i]])
    THEN Clients[Min({i \in 1..MaxClients :
          Clients[i] # 0 /\ deviceId \in TrackedIds(ClientDevices[Clients[i]])})]
    ELSE 0

\* ServerUrbForward: the tracking entry pushed on the head of PendingList
\* when a client was found
ServerUrbForward(list, urb) ==
    IF ServerUrbFindClientForDevice(urb.DeviceId) = 0
    THEN list
    ELSE <<[UrbId |-> urb.UrbId, DeviceId |-> urb.DeviceId,
            Client |-> ServerUrbFindClientForDevice(urb.DeviceId)]>> \o list

\* RemoteId the client found for the device gave when it attached it, 0 =
\* no client tracks the device
RemoteIdOf(deviceId) ==
    IF ServerUrbFindClientForDevice(deviceId) = 0
    THEN 0
    ELSE LET track == ClientDevices[ServerUrbFindClientForDevice(deviceId)]
         IN track[Min({i \in 0..(MaxDevices - 1) :
                track[i].Active /\ track[i].DeviceId = deviceId})].RemoteId

\* ServerUrbForward: the VUSB_URB_SUBMIT frame built from the pending URB
\* ("submit->DeviceId = pendingUrb->DeviceId").  Client and RemoteId are not
\* in the frame: they record whom it was sent to and the id that client
\* knows the device by.
SubmitFrame(urb) ==
    [UrbId |-> urb.UrbId, DeviceId |-> urb.DeviceId,
     Client |-> ServerUrbFindClientForDevice(urb.DeviceId),
     RemoteId |-> RemoteIdOf(urb.DeviceId)]

\* a send() that would put its frame ahead of the frames already written
SendSubmitFirst(sent, frame) == <<frame>> \o sent

\* ServerUrbForward: send(client->Socket, sendBuffer, sendSize, 0)
SendSubmit(sent, frame) == Append(sent, frame)

\* One round of UrbForwarderThread: IOCTL_VUSB_GET_PENDING_URB
\* (VusbHandleGetPendingUrb takes the head entry off the driver's list and
\* does not put it back) and ServerUrbForward.  With no client for the
\* device ServerUrbForward issues IOCTL_VUSB_COMPLETE_URB(NO_DEVICE) for the
\* URB id, which goes through VusbFindUrb like any other completion.
UrbForwarderThread ==
    /\ impl = "driver"
    /\ PendingUrbList # <<>>
    /\ PendingList' = ServerUrbForward(PendingList, Head(PendingUrbList))
    /\ IF ServerUrbFindClientForDevice(Head(PendingUrbList).DeviceId) = 0
       THEN /\ PendingUrbList' =
                  ListAfterFind(Tail(PendingUrbList), Head(PendingUrbList).UrbId)
            /\ Completed' =
                  IF FindUrbIndex(Tail(PendingUrbList), Head(PendingUrbList).UrbId) = 0
                  THEN Completed
                  ELSE VusbCompleteUrb(Completed, Head(PendingUrbList).UrbId,
                                       NtStatusOf(VUSB_STATUS_NO_DEVICE))
       ELSE /\ PendingUrbList' = Tail(PendingUrbList)
            /\ Completed' = Completed
    /\ Pulled' = Append(Pulled, Head(PendingUrbList).UrbId)
    /\ SubmitSent' = IF ServerUrbFindClientForDevice(Head(PendingUrbList).DeviceId) = 0
                     THEN SubmitSent
                     ELSE SendSubmit(SubmitSent, SubmitFrame(Head(PendingUrbList)))
    /\ UNCHANGED <<sockVars, usVars, impl, Clients, NextSessionId, ClientDevices,
                   Devices, NextUrbId, UrbDevice, DetachedUrbs, DeadUrbs, Owner, Ended,
                   Answered, Expired>>

\* The USB stack submits a URB for plugged device deviceId: VusbUrbCreate
\* (UrbId = ++NextUrbId) and VusbQueueUrb (InsertTailList)
VusbQueueUrb(deviceId) ==
    /\ impl = "driver"
    /\ NextUrbId < MaxUrbs
    /\ CanDestroy(Devices, deviceId)
    /\ NextUrbId' = NextUrbId + 1
    /\ PendingUrbList' = Append(PendingUrbList,
                                [UrbId |-> NextUrbId + 1, DeviceId |-> deviceId])
    /\ UrbDevice' = [UrbDevice EXCEPT ![NextUrbId + 1] = deviceId]
    /\ UNCHANGED <<sockVars, logVars, usVars, impl, Clients, NextSessionId, ClientDevices,
                   PendingList, Devices, Completed, DetachedUrbs, DeadUrbs, Owner,
                   Ended>>

\* IOCTL_VUSB_CANCEL_URB: VusbHandleCancelUrb -> VusbCancelUrb
VusbCancelUrb(urbId) ==
    /\ impl = "driver"
    /\ DriverFindAndComplete(urbId, "STATUS_CANCELLED")
    /\ UNCHANGED <<sockVars, logVars, usVars, impl, Clients, NextSessionId, ClientDevices,
                   PendingList, Devices, NextUrbId, UrbDevice, DetachedUrbs, DeadUrbs,
                   Owner, Ended>>

InitDriver ==
    /\ Clients = [i \in 1..MaxClients |-> 0]
    /\ NextSessionId = 0
    /\ ClientDevices = [s \in Sessions |-> EmptyTracking]
    /\ PendingList = <<>>
    /\ Devices = [i \in 0..(MaxDevices - 1) |-> 0]
    /\ PendingUrbList = <<>>
    /\ NextUrbId = 0
    /\ Completed = [u \in UrbIds |-> <<>>]
    /\ UrbDevice = [u \in UrbIds |-> 0]
    /\ DetachedUrbs = {}
    /\ DeadUrbs = {}
    /\ Owner = [i \in 0..(MaxDevices - 1) |-> 0]
    /\ Ended = {}

(* ========================== src/userspace ============================= *)

\* a VUSB_US_DEVICE slot that is not Active.  CleanupDevice only resets
\* Active, PendingUrbs and PendingUrbCount; every reader tests Active first
\* and InitializeDevice zeroes the slot before it is used again, so an
\* inactive slot is recorded as a zeroed one.
UsFreeDevice ==
    [Active |-> FALSE, DeviceId |-> 0, RemoteDeviceId |-> 0, OwnerClient |-> 0,
     NextUrbId |-> 0, PendingUrbs |-> <<>>]

UsSlots == 0..(MaxDevices - 1)

UsKeys == (1..MaxDeviceIds) \X UrbIds

\* FindFreeDeviceSlot: lowest slot that is not Active, -1 = NULL
FindFreeDeviceSlot(devs) ==
    IF \E i \in UsSlots : ~devs[i].Active
    THEN Min({i \in UsSlots : ~devs[i].Active})
    ELSE -1

\* VusbUsGetDevice: slot of the Active device with this DeviceId, -1 = NULL
VusbUsGetDevice(devs, deviceId) ==
    IF \E i \in UsSlots : devs[i].Active /\ devs[i].DeviceId = deviceId
    THEN Min({i \in UsSlots : devs[i].Active /\ devs[i].DeviceId = deviceId})
    ELSE -1

\* CleanupDevice: every pending URB is freed (no event is set, no callback
\* is called), Active = FALSE
CleanupDevice(dev) == UsFreeDevice

\* VusbUsDestroyDevice
VusbUsDestroyDevice(devs, deviceId) ==
    IF VusbUsGetDevice(devs, deviceId) = -1
    THEN devs
    ELSE [devs EXCEPT ![VusbUsGetDevice(devs, deviceId)] = CleanupDevice(@)]

\* position of urbId in a device's PendingUrbs, 0 = not pending
UsFindUrb(list, urbId) ==
    IF \E i \in 1..Len(list) : list[i] = urbId
    THEN Min({i \in 1..Len(list) : list[i] = urbId})
    ELSE 0

\* VusbUsCompleteUrb succeeds: the device is Active and the URB is pending
UsCanComplete(devs, deviceId, urbId) ==
    /\ VusbUsGetDevice(devs, deviceId) # -1
    /\ UsFindUrb(devs[VusbUsGetDevice(devs, deviceId)].PendingUrbs, urbId) # 0

\* VusbUsCompleteUrb: "*pUrb = urb->Next" takes the URB off the device's list
UsDevicesAfterComplete(devs, deviceId, urbId) ==
    IF UsCanComplete(devs, deviceId, urbId)
    THEN [devs EXCEPT ![VusbUsGetDevice(devs, deviceId)].PendingUrbs =
             RemoveAt(@, UsFindUrb(@, urbId))]
    ELSE devs

\* VusbUsCompleteUrb: SetEvent(CompletionEvent) and CompletionCallback
UsCompletedAfter(log, devs, deviceId, urbId, status) ==
    IF UsCanComplete(devs, deviceId, urbId)
    THEN [log EXCEPT ![<<deviceId, urbId>>] = Append(@, status)]
    ELSE log

\* accept loop of VusbUsRun
UsAcceptClient ==
    /\ impl = "userspace"
    /\ NextSessionId < MaxSessions
    /\ FreeClientSlot # 0
    /\ NextSessionId' = NextSessionId + 1
    /\ Clients' = [Clients EXCEPT ![FreeClientSlot] = NextSessionId + 1]
    /\ UNCHANGED <<sockVars, logVars, impl, ClientDevices, PendingList, Devices, PendingUrbList,
                   NextUrbId, Completed, UrbDevice, DetachedUrbs, DeadUrbs, Owner,
                   Ended, usVars>>

\* HandleDeviceAttach: the VUSB_DEVICE_ATTACH_RESPONSE it sends;
\* VusbUsCreateDevice returns -1 when FindFreeDeviceSlot finds no slot
UsAttachResponse(devs, nextDeviceId) ==
    [Full     |-> FindFreeDeviceSlot(devs) = -1,
     Status   |-> IF FindFreeDeviceSlot(devs) = -1
                  THEN VUSB_STATUS_ERROR
                  ELSE VUSB_STATUS_SUCCESS,
     DeviceId |-> IF FindFreeDeviceSlot(devs) = -1 THEN 0 ELSE nextDeviceId + 1]

\* DEVICE_ATTACH: VusbUsCreateDevice (DeviceId = ++NextDeviceId), then the
\* owner, the remote id and the client's DeviceIds[] are recorded
HandleDeviceAttach(s, remoteId) ==
    /\ impl = "userspace"
    /\ s \in ConnectedSessions
    /\ FindFreeDeviceSlot(UsDevices) = -1 \/ NextDeviceId < MaxDeviceIds
    /\ IF FindFreeDeviceSlot(UsDevices) = -1
       THEN UNCHANGED <<UsDevices, NextDeviceId, DeviceIds>>
       ELSE /\ NextDeviceId' = NextDeviceId + 1
            /\ UsDevices' = [UsDevices EXCEPT ![FindFreeDeviceSlot(UsDevices)] =
                   [Active |-> TRUE, DeviceId |-> NextDeviceId + 1,
                    RemoteDeviceId |-> remoteId, OwnerClient |-> s,
                    NextUrbId |-> 0, PendingUrbs |-> <<>>]]
            /\ DeviceIds' = IF Len(DeviceIds[s]) < MaxDevices
                            THEN [DeviceIds EXCEPT ![s] = Append(@, NextDeviceId + 1)]
                            ELSE DeviceIds
    /\ UNCHANGED <<sockVars, logVars, impl, drvVars, UsCompleted>>

\* HandleDeviceDetach: "client->DeviceIds[i] = client->DeviceIds[--DeviceCount]"
SwapRemove(ids, deviceId) ==
    IF \E i \in 1..Len(ids) : ids[i] = deviceId
    THEN SubSeq([ids EXCEPT ![Min({i \in 1..Len(ids) : ids[i] = deviceId})] =
                    ids[Len(ids)]], 1, Len(ids) - 1)
    ELSE ids

\* HandleDeviceDetach: ownership test
UsOwns(devs, s, deviceId) ==
    /\ VusbUsGetDevice(devs, deviceId) # -1
    /\ devs[VusbUsGetDevice(devs, deviceId)].OwnerClient = s

\* keys of the URBs pending on the Active device deviceId
UsPendingKeys(devs, deviceId) ==
    IF VusbUsGetDevice(devs, deviceId) = -1
    THEN {}
    ELSE {<<deviceId, devs[VusbUsGetDevice(devs, deviceId)].PendingUrbs[i]>> :
            i \in 1..Len(devs[VusbUsGetDevice(devs, deviceId)].PendingUrbs)}

\* keys of every URB ever submitted to the Active device deviceId
UsUrbKeys(devs, deviceId) ==
    IF VusbUsGetDevice(devs, deviceId) = -1
    THEN {}
    ELSE {<<deviceId, u>> : u \in 1..devs[VusbUsGetDevice(devs, deviceId)].NextUrbId}

\* DEVICE_DETACH{deviceId} from session s
HandleDeviceDetach(s, deviceId) ==
    /\ impl = "userspace"
    /\ s \in ConnectedSessions
    /\ IF UsOwns(UsDevices, s, deviceId)
       THEN /\ UsDevices' = VusbUsDestroyDevice(UsDevices, deviceId)
            /\ DeviceIds' = [DeviceIds EXCEPT ![s] = SwapRemove(@, deviceId)]
            /\ DetachedUrbs' = DetachedUrbs \cup UsUrbKeys(UsDevices, deviceId)
       ELSE UNCHANGED <<UsDevices, DeviceIds, DetachedUrbs>>
    /\ UNCHANGED <<sockVars, logVars, impl, DeadUrbs, Clients, NextSessionId, ClientDevices, PendingList,
                   Devices, PendingUrbList, NextUrbId, Completed, UrbDevice,
                   Owner, Ended, NextDeviceId, UsCompleted>>

\* HandleUrbComplete: the first Active device whose RemoteDeviceId equals
\* the frame's DeviceId; 0 = none
UsDeviceByRemoteId(devs, remoteId) ==
    IF \E i \in UsSlots : devs[i].Active /\ devs[i].RemoteDeviceId = remoteId
    THEN devs[Min({i \in UsSlots :
                     devs[i].Active /\ devs[i].RemoteDeviceId = remoteId})].DeviceId
    ELSE 0

\* URB_COMPLETE from session s (the sender is not looked at)
HandleUrbComplete(s, remoteId, urbId, status) ==
    /\ impl = "userspace"
    /\ s \in ConnectedSessions
    /\ UsDevices' = UsDevicesAfterComplete(
           UsDevices, UsDeviceByRemoteId(UsDevices, remoteId), urbId)
    /\ UsCompleted' = UsCompletedAfter(
           UsCompleted, UsDevices, UsDeviceByRemoteId(UsDevices, remoteId),
           urbId, status)
    /\ UNCHANGED <<sockVars, logVars, impl, drvVars, NextDeviceId, DeviceIds>>

\* ids in a sequence
Range(ids) == {ids[i] : i \in 1..Len(ids)}

\* ClientThread "cleanup:" - CleanupDevice on every Active device listed in
\* the client's DeviceIds[], then the client leaves ctx->Clients[]
ClientThread(s) ==
    /\ impl = "userspace"
    /\ s \in ConnectedSessions
    /\ UsDevices' = [i \in UsSlots |->
           IF UsDevices[i].Active /\ UsDevices[i].DeviceId \in Range(DeviceIds[s])
           THEN CleanupDevice(UsDevices[i])
           ELSE UsDevices[i]]
    /\ DeviceIds' = [DeviceIds EXCEPT ![s] = <<>>]
    /\ Clients' = [i \in 1..MaxClients |-> IF Clients[i] = s THEN 0 ELSE Clients[i]]
    /\ Ended' = Ended \cup {s}
    /\ UNCHANGED <<sockVars, logVars, impl, NextSessionId, ClientDevices, PendingList, Devices,
                   PendingUrbList, NextUrbId, Completed, UrbDevice,
                   DetachedUrbs, DeadUrbs, Owner, NextDeviceId, UsCompleted>>

\* VusbUsSubmitUrb: UrbId = ++device->NextUrbId, pushed on the list head
VusbUsSubmitUrb(deviceId) ==
    /\ impl = "userspace"
    /\ VusbUsGetDevice(UsDevices, deviceId) # -1
    /\ UsDevices[VusbUsGetDevice(UsDevices, deviceId)].NextUrbId < MaxUrbs
    /\ UsDevices' = [UsDevices EXCEPT ![VusbUsGetDevice(UsDevices, deviceId)] =
           [@ EXCEPT !.NextUrbId = @ + 1,
                     !.PendingUrbs = <<UsDevices[VusbUsGetDevice(UsDevices, deviceId)].NextUrbId + 1>> \o @]]
    /\ UNCHANGED <<sockVars, logVars, impl, drvVars, NextDeviceId, DeviceIds, UsCompleted>>

\* VusbUsCancelUrb = VusbUsCompleteUrb(..., VUSB_STATUS_CANCELED, NULL, 0)
VusbUsCancelUrb(deviceId, urbId) ==
    /\ impl = "userspace"
    /\ UsDevices' = UsDevicesAfterComplete(UsDevices, deviceId, urbId)
    /\ UsCompleted' = UsCompletedAfter(UsCompleted, UsDevices, deviceId, urbId,
                                       VUSB_STATUS_CANCELED)
    /\ UNCHANGED <<sockVars, logVars, impl, drvVars, NextDeviceId, DeviceIds>>

InitUserspace ==
    /\ UsDevices = [i \in UsSlots |-> UsFreeDevice]
    /\ NextDeviceId = 0
    /\ DeviceIds = [s \in Sessions |-> <<>>]
    /\ UsCompleted = [k \in UsKeys |-> <<>>]

InitLogs ==
    /\ Answered = {}
    /\ SubmitSent = <<>>
    /\ Pulled = <<>>
    /\ Expired = {}

\* no header read yet
NoRequest == [Valid |-> TRUE, Command |-> 0, Length |-> 0, Sequence |-> 0]

\* the receive loop of the connection has not started
InitSessIdle ==
    /\ Receiver = "VusbClientThread"
    /\ DriverHandle = "VirtualUSB"
    /\ SimNextId = 1
    /\ Connected = FALSE
    /\ Authenticated = FALSE
    /\ Request = NoRequest
    /\ PayloadRead = FALSE
    /\ Handled = FALSE
    /\ Replies = <<>>
    /\ Attached = {}
    /\ Fatal = "none"
    /\ LaterHandled = FALSE

\* the two threads of the enhanced client that send frames
SenderThreads == {"RunEnhancedInteractive", "ReceiveThread"}

\* VusbClientInit: ctx->Sequence = 0
InitSeqIdle ==
    /\ Sequence = 0
    /\ Loaded = [t \in SenderThreads |-> -1]
    /\ Numbered = [t \in SenderThreads |-> -1]
    /\ SeqSent = <<>>

\* VUSB_DIRECTION
VUSB_DIR_OUT == 0
VUSB_DIR_IN == 1

\* no completion has reached the submitter
NotObserved == [Done |-> FALSE, Success |-> FALSE, ActualLength |-> 0, Copied |-> 0]

\* no SUBMIT_URB frame is with the client
NoSubmit ==
    [DeviceId |-> 0, UrbId |-> 0, TransferType |-> 0, Direction |-> 0,
     TransferBufferLength |-> 0, Interval |-> 0, bRequest |-> 0, wValueLow |-> 0,
     Behind |-> 0]

\* no URB was submitted
InitCmpIdle ==
    /\ Submit = NoSubmit
    /\ Cancel = "none"
    /\ Urb = [UrbId |-> 0, RemoteDeviceId |-> 0, Direction |-> VUSB_DIR_OUT,
              TransferBufferLength |-> 0, TransferBuffer |-> FALSE,
              Listed |-> FALSE, Forwarded |-> FALSE]
    /\ Wire = <<>>
    /\ Observed = NotObserved

\* VusbServerInit / VusbUsInit done, the server runs
InitShutIdle ==
    /\ Running = TRUE
    /\ CleanedUp = FALSE
    /\ AtShutdown = {}

\* no URB handed out, no IOCTL handled, no URB frame sent
NoIoctl == [Code |-> "none", UrbId |-> 0, Status |-> "none", WasHanded |-> FALSE]

InitPullIdle ==
    /\ Handed = <<>>
    /\ Ioctl = NoIoctl
    /\ Frames = <<>>

\* the forwarder is not inside ServerUrbForward
NoForward == [UrbId |-> 0, DeviceId |-> 0, Client |-> 0]

InitRaceIdle ==
    /\ Forwarding = NoForward

\* the basic client is in no request and has read nothing
NoWait == [Command |-> 0, Sequence |-> 0, Need |-> 0, Got |-> <<>>]

InitBasicIdle ==
    /\ Waiting = NoWait
    /\ ToServer = <<>>
    /\ LastRead = NoWait

InitMoreIdle ==
    /\ InitPullIdle
    /\ InitRaceIdle
    /\ InitBasicIdle

InitIdle ==
    /\ InitSessIdle
    /\ InitSeqIdle
    /\ InitCmpIdle
    /\ InitShutIdle
    /\ InitMoreIdle

InitSockets ==
    /\ Sent = <<>>
    /\ SentUp = <<>>
    /\ ListLeft = 0
    /\ ListFrame = 0
    /\ NextFrame = 0
    /\ Inbound = <<>>
    /\ RecvNeed = 0
    /\ UserNeed = 0
    /\ Unanswered = 0
    /\ Readers = {}
    /\ Dispatched = <<>>

Init ==
    /\ impl \in {"driver", "userspace"}
    /\ InitDriver
    /\ InitUserspace
    /\ InitLogs
    /\ InitSockets
    /\ InitIdle

Next ==
    \/ VusbServerAcceptClient
    \/ \E s \in Sessions, r \in ServerRemoteIds : VusbServerHandleDeviceAttach(s, r)
    \/ \E s \in Sessions, d \in WireDeviceIds : VusbServerHandleDeviceDetach(s, d)
    \/ \E s \in Sessions, d \in LocalIds, u \in UrbIds, st \in WireStatuses :
          VusbServerHandleUrbComplete(s, d, u, st)
    \/ \E s \in Sessions : VusbServerDisconnectClient(s)
    \/ UrbForwarderThread
    \/ \E d \in LocalIds : VusbQueueUrb(d)
    \/ \E u \in UrbIds : VusbCancelUrb(u)
    \/ UsAcceptClient
    \/ \E s \in Sessions, r \in RemoteIds : HandleDeviceAttach(s, r)
    \/ \E s \in Sessions, d \in 0..MaxDeviceIds : HandleDeviceDetach(s, d)
    \/ \E s \in Sessions, r \in RemoteIds, u \in UrbIds, st \in WireStatuses :
          HandleUrbComplete(s, r, u, st)
    \/ \E s \in Sessions : ClientThread(s)
    \/ \E d \in 1..MaxDeviceIds : VusbUsSubmitUrb(d)
    \/ \E d \in 1..MaxDeviceIds, u \in UrbIds : VusbUsCancelUrb(d, u)

Spec == Init /\ [][Next]_vars

(* ============ the forwarder with the URB id counter at its width ======= *)
(* VusbUrbCreate numbers URBs with "++NextUrbId" on a ULONG, and the       *)
(* server never takes an entry off PendingList: SpecForward runs attach,   *)
(* URB creation and the forwarder with the counter wrapping at UrbIdBits.  *)

UrbIdModulus == 2 ^ UrbIdBits

WrappedUrbIds == 0..(UrbIdModulus - 1)

\* VusbUrbCreate + VusbQueueUrb with the counter's overflow
VusbQueueUrbWrapped(deviceId) ==
    /\ impl = "driver"
    /\ Len(PendingUrbList) < MaxUrbs
    /\ CanDestroy(Devices, deviceId)
    /\ NextUrbId' = (NextUrbId + 1) % UrbIdModulus
    /\ PendingUrbList' = Append(PendingUrbList,
           [UrbId |-> (NextUrbId + 1) % UrbIdModulus, DeviceId |-> deviceId])
    /\ UrbDevice' = [UrbDevice EXCEPT ![(NextUrbId + 1) % UrbIdModulus] = deviceId]
    /\ UNCHANGED <<sockVars, logVars, usVars, impl, Clients, NextSessionId,
                   ClientDevices, PendingList, Devices, Completed, DetachedUrbs,
                   DeadUrbs, Owner, Ended>>

\* UrbForwarderThread, for as many rounds as the run looks at
UrbForwarderRound ==
    /\ Len(Pulled) < MaxPulled
    /\ UrbForwarderThread

InitForward ==
    /\ impl = "driver"
    /\ Clients = [i \in 1..MaxClients |-> 0]
    /\ NextSessionId = 0
    /\ ClientDevices = [s \in Sessions |-> EmptyTracking]
    /\ PendingList = <<>>
    /\ Devices = [i \in 0..(MaxDevices - 1) |-> 0]
    /\ PendingUrbList = <<>>
    /\ NextUrbId = 0
    /\ Completed = [u \in WrappedUrbIds |-> <<>>]
    /\ UrbDevice = [u \in WrappedUrbIds |-> 0]
    /\ DetachedUrbs = {}
    /\ DeadUrbs = {}
    /\ Owner = [i \in 0..(MaxDevices - 1) |-> 0]
    /\ Ended = {}
    /\ InitUserspace
    /\ InitLogs
    /\ InitSockets
    /\ InitIdle

NextForward ==
    \/ VusbServerAcceptClient
    \/ \E s \in Sessions, r \in ServerRemoteIds : VusbServerHandleDeviceAttach(s, r)
    \/ \E d \in LocalIds : VusbQueueUrbWrapped(d)
    \/ UrbForwarderRound

SpecForward == InitForward /\ [][NextForward]_vars

(* ===================== forwarded URBs and their deadline =============== *)
(* ServerUrbForward stamps each tracking entry with SubmitTime; the driver *)
(* gives every URB a Timeout of 5000 ms.  SpecTimeout lets the deadline of *)
(* a tracked URB pass while the client sends no completion, and runs every *)
(* thread of the server fairly.                                            *)

\* the clock passes SubmitTime + Timeout of the entry tracked for URB u
DeadlinePasses(u) ==
    /\ \E i \in 1..Len(PendingList) : PendingList[i].UrbId = u
    /\ u \notin Expired
    /\ Expired' = Expired \cup {u}
    /\ UNCHANGED <<impl, drvVars, usVars, sockVars, Answered, SubmitSent, Pulled>>

NextTimeout ==
    \/ VusbServerAcceptClient
    \/ \E s \in Sessions, r \in ServerRemoteIds : VusbServerHandleDeviceAttach(s, r)
    \/ \E d \in LocalIds : VusbQueueUrb(d)
    \/ UrbForwarderThread
    \/ \E u \in UrbIds : DeadlinePasses(u)

InitTimeout ==
    /\ impl = "driver"
    /\ InitDriver
    /\ InitUserspace
    /\ InitLogs
    /\ InitSockets
    /\ InitIdle

SpecTimeout == InitTimeout /\ [][NextTimeout]_vars /\ WF_vars(NextTimeout)

(* ================= one session socket: who writes what ================= *)
(* Each send() call puts its buffer on the socket in one piece.  A frame   *)
(* that is sent with several send() calls is on the socket piece by piece. *)

Piece(frame, task, last) == [frame |-> frame, task |-> task, last |-> last]

\* VusbServerHandleDeviceList, first send(): header, status and count of a
\* response that announces n device infos
HandleDeviceListHeader(n) ==
    /\ ListLeft = 0
    /\ NextFrame < MaxFrames
    /\ NextFrame' = NextFrame + 1
    /\ ListFrame' = NextFrame + 1
    /\ ListLeft' = n
    /\ Sent' = Append(Sent, Piece(NextFrame + 1, "VusbClientThread", n = 0))
    /\ UNCHANGED <<mainVars, recvVars, SentUp>>

\* VusbServerHandleDeviceList, the loop: one send() per device info
HandleDeviceListInfo ==
    /\ ListLeft > 0
    /\ ListLeft' = ListLeft - 1
    /\ Sent' = Append(Sent, Piece(ListFrame, "VusbClientThread", ListLeft = 1))
    /\ UNCHANGED <<mainVars, recvVars, SentUp, ListFrame, NextFrame>>

\* the session thread's other answers (attach response, detach ack, pong,
\* error): one send() each, between two requests
SessionSendResponse ==
    /\ ListLeft = 0
    /\ NextFrame < MaxFrames
    /\ NextFrame' = NextFrame + 1
    /\ Sent' = Append(Sent, Piece(NextFrame + 1, "VusbClientThread", TRUE))
    /\ UNCHANGED <<mainVars, recvVars, SentUp, ListLeft, ListFrame>>

\* ServerUrbForward on the forwarder thread: the SUBMIT_URB frame goes out
\* with one send() on client->Socket; no lock is taken around it
ServerUrbForwardSend ==
    /\ NextFrame < MaxFrames
    /\ NextFrame' = NextFrame + 1
    /\ Sent' = Append(Sent, Piece(NextFrame + 1, "UrbForwarderThread", TRUE))
    /\ UNCHANGED <<mainVars, recvVars, SentUp, ListLeft, ListFrame>>

\* enhanced client, SendUrbCompletion (and the PONG) on the receive thread:
\* one send() for the whole frame
SendUrbCompletion ==
    /\ NextFrame < MaxFrames
    /\ NextFrame' = NextFrame + 1
    /\ SentUp' = Append(SentUp, Piece(NextFrame + 1, "ReceiveThread", TRUE))
    /\ UNCHANGED <<mainVars, recvVars, Sent, ListLeft, ListFrame>>

\* enhanced client, a request of the interactive thread (attach, detach,
\* list, ping): one send() for the whole frame
InteractiveSendRequest ==
    /\ NextFrame < MaxFrames
    /\ NextFrame' = NextFrame + 1
    /\ SentUp' = Append(SentUp, Piece(NextFrame + 1, "RunEnhancedInteractive", TRUE))
    /\ UNCHANGED <<mainVars, recvVars, Sent, ListLeft, ListFrame>>

InitSocket ==
    /\ impl = "driver"
    /\ InitDriver
    /\ InitUserspace
    /\ InitLogs
    /\ InitSockets
    /\ InitIdle

NextWire ==
    \/ \E n \in 0..MaxDevices : HandleDeviceListHeader(n)
    \/ HandleDeviceListInfo
    \/ SessionSendResponse
    \/ ServerUrbForwardSend
    \/ SendUrbCompletion
    \/ InteractiveSendRequest

SpecWire == InitSocket /\ [][NextWire]_vars

(* ============== one session socket: who reads on the client ============ *)
(* The stream is kept in units of 8 bytes.                                 *)

\* sizeof(VUSB_HEADER) = 16 bytes
HeaderUnits == 2
\* sizeof(VUSB_DEVICE_ATTACH_RESPONSE) = 24 bytes
AttachResponseUnits == 3
\* sizeof(VUSB_URB_SUBMIT) = 48 bytes
SubmitUrbUnits == 6

\* the units of frame number f, n units long
FrameUnits(f, n) == [i \in 1..n |-> [frame |-> f, off |-> i - 1, units |-> n]]

Take(seq, n) == SubSeq(seq, 1, n)

Drop(seq, n) == SubSeq(seq, n + 1, Len(seq))

\* VusbValidateHeader on 16 bytes taken off the stream: Magic and Version sit
\* in the first 8 bytes of a header.  Payload bytes are taken not to spell
\* the magic.
VusbValidateHeader(h) == h[1].off = 0

\* header.Length of a valid header, in units
PayloadUnits(h) == h[1].units - HeaderUnits

\* the units are the payload of frame f, all of it
IsPayloadOf(us, f) ==
    \A i \in 1..Len(us) :
        us[i].frame = f /\ us[i].off = HeaderUnits + i - 1 /\ us[i].units = HeaderUnits + Len(us)

\* the server answers the request of the interactive thread
ServerReply ==
    /\ Unanswered > 0
    /\ NextFrame < MaxFrames
    /\ NextFrame' = NextFrame + 1
    /\ Inbound' = Inbound \o FrameUnits(NextFrame + 1, Unanswered)
    /\ Unanswered' = 0
    /\ UNCHANGED <<mainVars, wireVars, RecvNeed, UserNeed, Readers, Dispatched>>

\* the server forwards a URB: a SUBMIT_URB frame arrives
ServerSubmitUrb ==
    /\ NextFrame < MaxFrames
    /\ NextFrame' = NextFrame + 1
    /\ Inbound' = Inbound \o FrameUnits(NextFrame + 1, SubmitUrbUnits)
    /\ UNCHANGED <<mainVars, wireVars, RecvNeed, UserNeed, Unanswered, Readers,
                   Dispatched>>

\* ReceiveThread: recv(sizeof(header), MSG_WAITALL), VusbValidateHeader;
\* an invalid header makes the loop "continue", a header without payload is
\* handed to ProcessServerMessage at once
ReceiveThreadHeader ==
    /\ RecvNeed = 0
    /\ Len(Inbound) >= HeaderUnits
    /\ Inbound' = Drop(Inbound, HeaderUnits)
    /\ Readers' = Readers \cup {"ReceiveThread"}
    /\ IF ~VusbValidateHeader(Take(Inbound, HeaderUnits))
       THEN UNCHANGED <<RecvNeed, Dispatched>>
       ELSE /\ RecvNeed' = PayloadUnits(Take(Inbound, HeaderUnits))
            /\ Dispatched' = Append(Dispatched,
                  [frame |-> Inbound[1].frame,
                   intact |-> PayloadUnits(Take(Inbound, HeaderUnits)) = 0])
    /\ UNCHANGED <<mainVars, wireVars, NextFrame, UserNeed, Unanswered>>

\* ReceiveThread: recv(header.Length, MSG_WAITALL), ProcessServerMessage
ReceiveThreadPayload ==
    /\ RecvNeed > 0
    /\ Len(Inbound) >= RecvNeed
    /\ Inbound' = Drop(Inbound, RecvNeed)
    /\ RecvNeed' = 0
    /\ Readers' = Readers \cup {"ReceiveThread"}
    /\ Dispatched' = [Dispatched EXCEPT ![Len(Dispatched)].intact =
           IsPayloadOf(Take(Inbound, RecvNeed), Dispatched[Len(Dispatched)].frame)]
    /\ UNCHANGED <<mainVars, wireVars, NextFrame, UserNeed, Unanswered>>

\* interactive thread, VusbClientAttachDevice up to its send()
VusbClientAttachDevice ==
    /\ UserNeed = 0
    /\ Unanswered = 0
    /\ UserNeed' = AttachResponseUnits
    /\ Unanswered' = AttachResponseUnits
    /\ UNCHANGED <<mainVars, wireVars, NextFrame, Inbound, RecvNeed, Readers,
                   Dispatched>>

\* interactive thread, VusbClientPing up to its send()
VusbClientPing ==
    /\ UserNeed = 0
    /\ Unanswered = 0
    /\ UserNeed' = HeaderUnits
    /\ Unanswered' = HeaderUnits
    /\ UNCHANGED <<mainVars, wireVars, NextFrame, Inbound, RecvNeed, Readers,
                   Dispatched>>

\* interactive thread, the recv(sizeof(response), MSG_WAITALL) that ends
\* VusbClientAttachDevice and VusbClientPing
InteractiveRecv ==
    /\ UserNeed > 0
    /\ Len(Inbound) >= UserNeed
    /\ Inbound' = Drop(Inbound, UserNeed)
    /\ UserNeed' = 0
    /\ Readers' = Readers \cup {"RunEnhancedInteractive"}
    /\ UNCHANGED <<mainVars, wireVars, NextFrame, RecvNeed, Unanswered, Dispatched>>

NextRecv ==
    \/ ServerReply
    \/ ServerSubmitUrb
    \/ ReceiveThreadHeader
    \/ ReceiveThreadPayload
    \/ VusbClientAttachDevice
    \/ VusbClientPing
    \/ InteractiveRecv

SpecRecv == InitSocket /\ [][NextRecv]_vars

(* ================= one connection: the receive loop ==================== *)
(* SpecSession runs one connection from accept to the end of its receive   *)
(* loop.  Each step is one turn of the loop: recv() of a header, the       *)
(* checks, recv() of the payload and the message switch.  The peer may put *)
(* any header on the socket.                                                *)

\* sizeof(VUSB_HEADER)
HeaderSize == 16
VUSB_MAX_PACKET_SIZE == 65536
\* sizeof(VUSB_DEVICE_INFO) + sizeof(ULONG)
AttachPayloadMin == 212
\* sizeof(ULONG)
DetachPayloadMin == 4
\* sizeof(VUSB_URB_COMPLETE) - sizeof(VUSB_HEADER)
UrbCompletePayloadMin == 20
\* sizeof(VUSB_URB_SUBMIT) - sizeof(VUSB_HEADER)
SubmitPayloadMin == 32

VUSB_CMD_CONNECT == 1
VUSB_CMD_DISCONNECT == 2
VUSB_CMD_PING == 3
VUSB_CMD_PONG == 4
VUSB_CMD_DEVICE_ATTACH == 16
VUSB_CMD_DEVICE_DETACH == 17
VUSB_CMD_DEVICE_LIST == 18
VUSB_CMD_SUBMIT_URB == 32
VUSB_CMD_URB_COMPLETE == 33
VUSB_CMD_CANCEL_URB == 34
VUSB_CMD_ERROR == 255
VUSB_CMD_STATUS == 254
\* a command code VUSB_COMMAND does not define
UnassignedCommand == 153

VUSB_STATUS_INVALID_PARAM == 7
VUSB_STATUS_NOT_SUPPORTED == 9

\* "header.Length > VUSB_MAX_PACKET_SIZE - sizeof(header)" in both servers
ServerPayloadLimit == VUSB_MAX_PACKET_SIZE - HeaderSize

\* "header.Length > VUSB_MAX_PACKET_SIZE" in the enhanced client
ClientPayloadLimit == VUSB_MAX_PACKET_SIZE

\* header.Length values the peer sends
LengthSamples ==
    {0, DetachPayloadMin, AttachPayloadMin, ServerPayloadLimit, ServerPayloadLimit + 1,
     ClientPayloadLimit, ClientPayloadLimit + 1}

\* header.Sequence values the peer sends
SequenceSamples == 1..MaxSequence

\* header.Command values a client sends to a server
ClientCommands ==
    {VUSB_CMD_CONNECT, VUSB_CMD_DISCONNECT, VUSB_CMD_PING, VUSB_CMD_DEVICE_ATTACH,
     VUSB_CMD_DEVICE_DETACH, VUSB_CMD_DEVICE_LIST, VUSB_CMD_URB_COMPLETE,
     UnassignedCommand}

\* header.Command values a server sends to a client
ServerCommands ==
    {VUSB_CMD_PING, VUSB_CMD_SUBMIT_URB, VUSB_CMD_CANCEL_URB, VUSB_CMD_ERROR,
     VUSB_CMD_DEVICE_ATTACH, UnassignedCommand}

\* the cases of the switch in VusbServerProcessMessage and ProcessClientMessage
ServerSwitchCases ==
    {VUSB_CMD_CONNECT, VUSB_CMD_DISCONNECT, VUSB_CMD_PING, VUSB_CMD_DEVICE_ATTACH,
     VUSB_CMD_DEVICE_DETACH, VUSB_CMD_URB_COMPLETE, VUSB_CMD_DEVICE_LIST}

\* headers on the socket; Valid = VusbValidateHeader (Magic and Version)
Headers(commands) ==
    [Valid : BOOLEAN, Command : commands, Length : LengthSamples,
     Sequence : SequenceSamples]

\* a header initialised without the sequence number handed in
FrameUnnumbered(command, sequence, status, deviceId, entries) ==
    [Command |-> command, Sequence |-> 0, Status |-> status,
     DeviceId |-> deviceId, DeviceCount |-> Len(entries), Entries |-> entries]

\* a frame the loop sends: VusbInitHeader(header, command, length, sequence)
Frame(command, sequence, status, deviceId, entries) ==
    [Command |-> command, Sequence |-> sequence, Status |-> status,
     DeviceId |-> deviceId, DeviceCount |-> Len(entries), Entries |-> entries]

\* VusbServerSendError
VusbServerSendError(sequence, errorCode) ==
    Frame(VUSB_CMD_ERROR, sequence, errorCode, 0, <<>>)

\* what is malformed in a header: bad Magic or Version, a Length above
\* VUSB_MAX_PACKET_SIZE - sizeof(VUSB_HEADER), a Command without a case
Malformed(h) ==
    IF ~h.Valid THEN "header"
    ELSE IF h.Length > ServerPayloadLimit THEN "length"
    ELSE IF Receiver # "ReceiveThread" /\ h.Command \notin ServerSwitchCases
         THEN "command"
    ELSE "none"

\* one turn of a receive loop on header h: what the loop did with it
Turn(h, payloadRead, handled, connected, replies) ==
    /\ Connected
    /\ Request' = h
    /\ PayloadRead' = payloadRead
    /\ Handled' = handled
    /\ Connected' = connected
    /\ Replies' = replies
    /\ Fatal' = IF Fatal = "none" THEN Malformed(h) ELSE Fatal
    /\ LaterHandled' = (LaterHandled \/ (Fatal # "none" /\ handled))

\* the loop read a header that passed its checks and whose payload came
Accepted(h, limit) == h.Valid /\ h.Length <= limit

(* -------- src/server/vusb_server.c: VusbClientThread, session 1 -------- *)

\* "if (!VusbValidateHeader(&header)) break;"
VusbClientThreadInvalidHeader(h) ==
    /\ Receiver = "VusbClientThread"
    /\ ~h.Valid
    /\ Turn(h, FALSE, FALSE, FALSE, <<>>)
    /\ UNCHANGED <<impl, drvVars, usVars, logVars, streamVars, cmpVars, shutVars, moreVars, seqVars, Receiver, DriverHandle,
                   SimNextId, Authenticated, Attached>>

\* "if (header.Length > VUSB_MAX_PACKET_SIZE - sizeof(header)) break;"
VusbClientThreadTooLarge(h) ==
    /\ Receiver = "VusbClientThread"
    /\ h.Valid
    /\ h.Length > ServerPayloadLimit
    /\ Turn(h, FALSE, FALSE, FALSE, <<>>)
    /\ UNCHANGED <<impl, drvVars, usVars, logVars, streamVars, cmpVars, shutVars, moreVars, seqVars, Receiver, DriverHandle,
                   SimNextId, Authenticated, Attached>>

\* VusbServerHandleConnect
VusbServerHandleConnect(h) ==
    /\ Receiver = "VusbClientThread"
    /\ Accepted(h, ServerPayloadLimit)
    /\ h.Command = VUSB_CMD_CONNECT
    /\ Turn(h, h.Length > 0, TRUE, TRUE,
            <<Frame(VUSB_CMD_CONNECT, h.Sequence, VUSB_STATUS_SUCCESS, 0, <<>>)>>)
    /\ Authenticated' = TRUE
    /\ UNCHANGED <<impl, drvVars, usVars, logVars, streamVars, cmpVars, shutVars, moreVars, seqVars, Receiver, DriverHandle,
                   SimNextId, Attached>>

\* case VUSB_CMD_DISCONNECT: client->Connected = FALSE
VusbServerHandleDisconnect(h) ==
    /\ Receiver = "VusbClientThread"
    /\ Accepted(h, ServerPayloadLimit)
    /\ h.Command = VUSB_CMD_DISCONNECT
    /\ Turn(h, h.Length > 0, TRUE, FALSE, <<>>)
    /\ UNCHANGED <<impl, drvVars, usVars, logVars, streamVars, cmpVars, shutVars, moreVars, seqVars, Receiver, DriverHandle,
                   SimNextId, Authenticated, Attached>>

\* case VUSB_CMD_PING: VusbServerSendPong(client, header->Sequence)
VusbServerSendPong(h) ==
    /\ Receiver = "VusbClientThread"
    /\ Accepted(h, ServerPayloadLimit)
    /\ h.Command = VUSB_CMD_PING
    /\ Turn(h, h.Length > 0, TRUE, TRUE,
            <<Frame(VUSB_CMD_PONG, h.Sequence, VUSB_STATUS_SUCCESS, 0, <<>>)>>)
    /\ UNCHANGED <<impl, drvVars, usVars, logVars, streamVars, cmpVars, shutVars, moreVars, seqVars, Receiver, DriverHandle,
                   SimNextId, Authenticated, Attached>>

\* default: VusbServerSendError(VUSB_STATUS_NOT_SUPPORTED), then "break" out
\* of the switch; the loop goes on
VusbServerProcessUnknown(h) ==
    /\ Receiver = "VusbClientThread"
    /\ Accepted(h, ServerPayloadLimit)
    /\ h.Command \notin ServerSwitchCases
    /\ Turn(h, h.Length > 0, TRUE, TRUE,
            <<VusbServerSendError(h.Sequence, VUSB_STATUS_NOT_SUPPORTED)>>)
    /\ UNCHANGED <<impl, drvVars, usVars, logVars, streamVars, cmpVars, shutVars, moreVars, seqVars, Receiver, DriverHandle,
                   SimNextId, Authenticated, Attached>>

\* the session of the connection: the one in the first client slot
ThisSession == Clients[1]

\* VusbServerPluginDevice as VusbServerHandleDeviceAttach sees it: without a
\* driver handle ("simulation mode") it hands out nextId++ and returns 0
PluginDevice(devs) ==
    IF DriverHandle = "INVALID_HANDLE_VALUE"
    THEN [Result |-> 0, DeviceId |-> SimNextId]
    ELSE [Result |-> VusbServerPluginDevice(devs),
          DeviceId |-> AttachResponse(devs).DeviceId]

\* VusbServerUnplugDevice: IOCTL_VUSB_UNPLUG_DEVICE, nothing without a handle
UnplugDevice(devs, deviceId) ==
    IF DriverHandle = "INVALID_HANDLE_VALUE"
    THEN devs
    ELSE VusbDestroyVirtualDevice(devs, deviceId)

\* VusbHandleGetDeviceList: the devices in the slots that are not NULL, in
\* slot order
VusbHandleGetDeviceList(devs) ==
    SelectSeq([i \in 1..MaxDevices |-> devs[i - 1]], LAMBDA id : id # 0)

\* VusbServerHandleDeviceList: deviceList is zeroed and filled by the driver
\* only "if (ctx->DriverHandle != INVALID_HANDLE_VALUE)"
ServerDeviceList(devs) ==
    IF DriverHandle = "INVALID_HANDLE_VALUE"
    THEN <<>>
    ELSE VusbHandleGetDeviceList(devs)

\* case VUSB_CMD_DEVICE_ATTACH: VusbServerHandleDeviceAttach
VusbClientThreadDeviceAttach(h, remoteId) ==
    /\ Receiver = "VusbClientThread"
    /\ Accepted(h, ServerPayloadLimit)
    /\ h.Command = VUSB_CMD_DEVICE_ATTACH
    /\ IF h.Length < AttachPayloadMin
       THEN /\ Turn(h, h.Length > 0, TRUE, TRUE,
                    <<VusbServerSendError(h.Sequence, VUSB_STATUS_INVALID_PARAM)>>)
            /\ UNCHANGED <<Devices, ClientDevices, Owner, SimNextId, Attached>>
       ELSE /\ DriverHandle = "INVALID_HANDLE_VALUE" => SimNextId <= MaxDeviceIds
            /\ Turn(h, TRUE, TRUE, TRUE,
                    <<Frame(VUSB_CMD_DEVICE_ATTACH, h.Sequence,
                            IF PluginDevice(Devices).Result = 0
                            THEN VUSB_STATUS_SUCCESS ELSE VUSB_STATUS_ERROR,
                            PluginDevice(Devices).DeviceId, <<>>)>>)
            /\ Devices' = IF DriverHandle = "INVALID_HANDLE_VALUE"
                          THEN Devices
                          ELSE VusbCreateVirtualDevice(Devices)
            /\ ClientDevices' = [ClientDevices EXCEPT ![ThisSession] =
                   IF PluginDevice(Devices).Result = 0
                   THEN TrackDevice(@, PluginDevice(Devices).DeviceId, remoteId)
                   ELSE @]
            /\ Owner' = IF DriverHandle = "INVALID_HANDLE_VALUE" \/
                           CreatedDeviceId(Devices) = 0
                        THEN Owner
                        ELSE [Owner EXCEPT ![CreatedDeviceId(Devices) - 1] = ThisSession]
            /\ SimNextId' = IF DriverHandle = "INVALID_HANDLE_VALUE"
                            THEN SimNextId + 1
                            ELSE SimNextId
            /\ Attached' = IF PluginDevice(Devices).Result = 0 /\
                              PluginDevice(Devices).DeviceId > 0
                           THEN Attached \cup {PluginDevice(Devices).DeviceId}
                           ELSE Attached
    /\ UNCHANGED <<impl, usVars, logVars, streamVars, cmpVars, shutVars, moreVars, seqVars, Receiver, DriverHandle,
                   Authenticated, Clients, NextSessionId, PendingList, PendingUrbList,
                   NextUrbId, Completed, UrbDevice, DetachedUrbs, DeadUrbs, Ended>>

\* case VUSB_CMD_DEVICE_DETACH: VusbServerHandleDeviceDetach
VusbClientThreadDeviceDetach(h, deviceId) ==
    /\ Receiver = "VusbClientThread"
    /\ Accepted(h, ServerPayloadLimit)
    /\ h.Command = VUSB_CMD_DEVICE_DETACH
    /\ IF h.Length < DetachPayloadMin
       THEN /\ Turn(h, h.Length > 0, TRUE, TRUE,
                    <<VusbServerSendError(h.Sequence, VUSB_STATUS_INVALID_PARAM)>>)
            /\ UNCHANGED <<Devices, ClientDevices, Owner, DetachedUrbs, DeadUrbs,
                           Attached>>
       ELSE /\ Turn(h, TRUE, TRUE, TRUE,
                    <<Frame(VUSB_CMD_DEVICE_DETACH, h.Sequence, VUSB_STATUS_SUCCESS,
                            0, <<>>)>>)
            /\ Devices' = UnplugDevice(Devices, deviceId)
            /\ DetachedUrbs' = IF UnplugDevice(Devices, deviceId) # Devices
                               THEN DetachedUrbs \cup UrbsOf(deviceId)
                               ELSE DetachedUrbs
            /\ DeadUrbs' = IF UnplugDevice(Devices, deviceId) # Devices
                           THEN DeadUrbs \cup UrbsOf(deviceId)
                           ELSE DeadUrbs
            /\ Owner' = IF UnplugDevice(Devices, deviceId) # Devices
                        THEN [Owner EXCEPT ![deviceId - 1] = 0]
                        ELSE Owner
            /\ ClientDevices' = [ClientDevices EXCEPT ![ThisSession] =
                   UntrackDevice(@, deviceId)]
            /\ Attached' = Attached \ {deviceId}
    /\ UNCHANGED <<impl, usVars, logVars, streamVars, cmpVars, shutVars, moreVars, seqVars, Receiver, DriverHandle, SimNextId,
                   Authenticated, Clients, NextSessionId, PendingList, PendingUrbList,
                   NextUrbId, Completed, UrbDevice, Ended>>

\* case VUSB_CMD_URB_COMPLETE: VusbServerHandleUrbComplete; it sends nothing
VusbClientThreadUrbComplete(h, deviceId, urbId, status) ==
    /\ Receiver = "VusbClientThread"
    /\ Accepted(h, ServerPayloadLimit)
    /\ h.Command = VUSB_CMD_URB_COMPLETE
    /\ Turn(h, h.Length > 0, TRUE, TRUE, <<>>)
    /\ IF h.Length < UrbCompletePayloadMin \/ DriverHandle = "INVALID_HANDLE_VALUE"
       THEN UNCHANGED <<PendingUrbList, Completed, Answered>>
       ELSE /\ DriverFindAndComplete(urbId, NtStatusOf(status))
            /\ Answered' = IF InPendingList(PendingList, deviceId, urbId)
                           THEN Answered \cup {urbId}
                           ELSE Answered
    /\ UNCHANGED <<impl, usVars, streamVars, cmpVars, shutVars, moreVars, seqVars, Receiver, DriverHandle, SimNextId,
                   Authenticated, Attached, Clients, NextSessionId, ClientDevices,
                   PendingList, Devices, NextUrbId, UrbDevice, DetachedUrbs, DeadUrbs,
                   Owner, Ended, SubmitSent, Pulled, Expired>>

\* case VUSB_CMD_DEVICE_LIST: VusbServerHandleDeviceList
VusbClientThreadDeviceList(h) ==
    /\ Receiver = "VusbClientThread"
    /\ Accepted(h, ServerPayloadLimit)
    /\ h.Command = VUSB_CMD_DEVICE_LIST
    /\ Turn(h, h.Length > 0, TRUE, TRUE,
            <<Frame(VUSB_CMD_DEVICE_LIST, h.Sequence, VUSB_STATUS_SUCCESS, 0,
                    ServerDeviceList(Devices))>>)
    /\ UNCHANGED <<impl, drvVars, usVars, logVars, streamVars, cmpVars, shutVars, moreVars, seqVars, Receiver, DriverHandle,
                   SimNextId, Authenticated, Attached>>

\* recv() of the header returns 0 or fails: "break"
VusbClientThreadRecvFails ==
    /\ Receiver = "VusbClientThread"
    /\ Connected
    /\ Connected' = FALSE
    /\ UNCHANGED <<impl, drvVars, usVars, logVars, streamVars, cmpVars, shutVars, moreVars, seqVars, Receiver, DriverHandle,
                   SimNextId, Authenticated, Request, PayloadRead, Handled, Replies,
                   Attached, Fatal, LaterHandled>>

\* "cleanup:" after the loop
VusbClientThreadCleanup ==
    /\ Receiver = "VusbClientThread"
    /\ ~Connected
    /\ \E s \in ConnectedSessions : VusbServerDisconnectClient(s)

(* ------ src/userspace/vusb_userspace.c: ClientThread, session 1 -------- *)

\* "if (!VusbValidateHeader(&header)) break;"
ClientThreadInvalidHeader(h) ==
    /\ Receiver = "ClientThread"
    /\ ~h.Valid
    /\ Turn(h, FALSE, FALSE, FALSE, <<>>)
    /\ UNCHANGED <<impl, drvVars, usVars, logVars, streamVars, cmpVars, shutVars, moreVars, seqVars, Receiver, DriverHandle,
                   SimNextId, Authenticated, Attached>>

\* "if (header.Length > VUSB_MAX_PACKET_SIZE - sizeof(header)) break;"
ClientThreadTooLarge(h) ==
    /\ Receiver = "ClientThread"
    /\ h.Valid
    /\ h.Length > ServerPayloadLimit
    /\ Turn(h, FALSE, FALSE, FALSE, <<>>)
    /\ UNCHANGED <<impl, drvVars, usVars, logVars, streamVars, cmpVars, shutVars, moreVars, seqVars, Receiver, DriverHandle,
                   SimNextId, Authenticated, Attached>>

\* HandleClientConnect
HandleClientConnect(h) ==
    /\ Receiver = "ClientThread"
    /\ Accepted(h, ServerPayloadLimit)
    /\ h.Command = VUSB_CMD_CONNECT
    /\ Turn(h, h.Length > 0, TRUE, TRUE,
            <<Frame(VUSB_CMD_CONNECT, h.Sequence, VUSB_STATUS_SUCCESS, 0, <<>>)>>)
    /\ Authenticated' = TRUE
    /\ UNCHANGED <<impl, drvVars, usVars, logVars, streamVars, cmpVars, shutVars, moreVars, seqVars, Receiver, DriverHandle,
                   SimNextId, Attached>>

\* case VUSB_CMD_DISCONNECT: client->Connected = FALSE
ClientThreadDisconnect(h) ==
    /\ Receiver = "ClientThread"
    /\ Accepted(h, ServerPayloadLimit)
    /\ h.Command = VUSB_CMD_DISCONNECT
    /\ Turn(h, h.Length > 0, TRUE, FALSE, <<>>)
    /\ UNCHANGED <<impl, drvVars, usVars, logVars, streamVars, cmpVars, shutVars, moreVars, seqVars, Receiver, DriverHandle,
                   SimNextId, Authenticated, Attached>>

\* HandlePing
HandlePing(h) ==
    /\ Receiver = "ClientThread"
    /\ Accepted(h, ServerPayloadLimit)
    /\ h.Command = VUSB_CMD_PING
    /\ Turn(h, h.Length > 0, TRUE, TRUE,
            <<Frame(VUSB_CMD_PONG, h.Sequence, VUSB_STATUS_SUCCESS, 0, <<>>)>>)
    /\ UNCHANGED <<impl, drvVars, usVars, logVars, streamVars, cmpVars, shutVars, moreVars, seqVars, Receiver, DriverHandle,
                   SimNextId, Authenticated, Attached>>

\* default: LogMessage("Unknown command"), nothing is sent, the loop goes on
ClientThreadUnknown(h) ==
    /\ Receiver = "ClientThread"
    /\ Accepted(h, ServerPayloadLimit)
    /\ h.Command \notin ServerSwitchCases
    /\ Turn(h, h.Length > 0, TRUE, TRUE, <<>>)
    /\ UNCHANGED <<impl, drvVars, usVars, logVars, streamVars, cmpVars, shutVars, moreVars, seqVars, Receiver, DriverHandle,
                   SimNextId, Authenticated, Attached>>

\* case VUSB_CMD_DEVICE_ATTACH: HandleDeviceAttach
ClientThreadDeviceAttach(h, remoteId) ==
    /\ Receiver = "ClientThread"
    /\ Accepted(h, ServerPayloadLimit)
    /\ h.Command = VUSB_CMD_DEVICE_ATTACH
    /\ IF h.Length < AttachPayloadMin
       THEN /\ Turn(h, h.Length > 0, TRUE, TRUE,
                    <<Frame(VUSB_CMD_DEVICE_ATTACH, h.Sequence,
                            VUSB_STATUS_INVALID_PARAM, 0, <<>>)>>)
            /\ UNCHANGED <<UsDevices, NextDeviceId, DeviceIds, Attached>>
       ELSE /\ FindFreeDeviceSlot(UsDevices) = -1 \/ NextDeviceId < MaxDeviceIds
            /\ Turn(h, TRUE, TRUE, TRUE,
                    <<Frame(VUSB_CMD_DEVICE_ATTACH, h.Sequence,
                            UsAttachResponse(UsDevices, NextDeviceId).Status,
                            UsAttachResponse(UsDevices, NextDeviceId).DeviceId, <<>>)>>)
            /\ IF FindFreeDeviceSlot(UsDevices) = -1
               THEN UNCHANGED <<UsDevices, NextDeviceId, DeviceIds, Attached>>
               ELSE /\ NextDeviceId' = NextDeviceId + 1
                    /\ UsDevices' = [UsDevices EXCEPT ![FindFreeDeviceSlot(UsDevices)] =
                           [Active |-> TRUE, DeviceId |-> NextDeviceId + 1,
                            RemoteDeviceId |-> remoteId, OwnerClient |-> ThisSession,
                            NextUrbId |-> 0, PendingUrbs |-> <<>>]]
                    /\ DeviceIds' =
                           IF Len(DeviceIds[ThisSession]) < MaxDevices
                           THEN [DeviceIds EXCEPT ![ThisSession] =
                                    Append(@, NextDeviceId + 1)]
                           ELSE DeviceIds
                    /\ Attached' = Attached \cup {NextDeviceId + 1}
    /\ UNCHANGED <<impl, drvVars, UsCompleted, logVars, streamVars, cmpVars, shutVars, moreVars, seqVars, Receiver,
                   DriverHandle, SimNextId, Authenticated>>

\* case VUSB_CMD_DEVICE_DETACH: HandleDeviceDetach; the payload length is not
\* looked at, the answer is a STATUS header in every case
ClientThreadDeviceDetach(h, deviceId) ==
    /\ Receiver = "ClientThread"
    /\ Accepted(h, ServerPayloadLimit)
    /\ h.Command = VUSB_CMD_DEVICE_DETACH
    /\ Turn(h, h.Length > 0, TRUE, TRUE,
            <<Frame(VUSB_CMD_STATUS, h.Sequence, VUSB_STATUS_SUCCESS, 0, <<>>)>>)
    /\ IF UsOwns(UsDevices, ThisSession, deviceId)
       THEN /\ UsDevices' = VusbUsDestroyDevice(UsDevices, deviceId)
            /\ DeviceIds' = [DeviceIds EXCEPT ![ThisSession] = SwapRemove(@, deviceId)]
            /\ DetachedUrbs' = DetachedUrbs \cup UsUrbKeys(UsDevices, deviceId)
            /\ Attached' = Attached \ {deviceId}
       ELSE UNCHANGED <<UsDevices, DeviceIds, DetachedUrbs, Attached>>
    /\ UNCHANGED <<impl, logVars, streamVars, cmpVars, shutVars, moreVars, seqVars, Receiver, DriverHandle, SimNextId,
                   Authenticated, DeadUrbs, Clients, NextSessionId, ClientDevices,
                   PendingList, Devices, PendingUrbList, NextUrbId, Completed,
                   UrbDevice, Owner, Ended, NextDeviceId, UsCompleted>>

\* case VUSB_CMD_URB_COMPLETE: HandleUrbComplete; it sends nothing
ClientThreadUrbComplete(h, remoteId, urbId, status) ==
    /\ Receiver = "ClientThread"
    /\ Accepted(h, ServerPayloadLimit)
    /\ h.Command = VUSB_CMD_URB_COMPLETE
    /\ Turn(h, h.Length > 0, TRUE, TRUE, <<>>)
    /\ IF h.Length < UrbCompletePayloadMin
       THEN UNCHANGED <<UsDevices, UsCompleted>>
       ELSE /\ UsDevices' = UsDevicesAfterComplete(
                   UsDevices, UsDeviceByRemoteId(UsDevices, remoteId), urbId)
            /\ UsCompleted' = UsCompletedAfter(
                   UsCompleted, UsDevices, UsDeviceByRemoteId(UsDevices, remoteId),
                   urbId, status)
    /\ UNCHANGED <<impl, drvVars, NextDeviceId, DeviceIds, logVars, streamVars, cmpVars, shutVars, moreVars, seqVars,
                   Receiver, DriverHandle, SimNextId, Authenticated, Attached>>

\* the Active devices of ctx->Devices[], in slot order
UsDeviceList(devs) ==
    SelectSeq([i \in 1..MaxDevices |-> IF devs[i - 1].Active
                                       THEN devs[i - 1].DeviceId ELSE 0],
              LAMBDA id : id # 0)

\* case VUSB_CMD_DEVICE_LIST: HandleDeviceList
HandleDeviceList(h) ==
    /\ Receiver = "ClientThread"
    /\ Accepted(h, ServerPayloadLimit)
    /\ h.Command = VUSB_CMD_DEVICE_LIST
    /\ Turn(h, h.Length > 0, TRUE, TRUE,
            <<Frame(VUSB_CMD_DEVICE_LIST, h.Sequence, VUSB_STATUS_SUCCESS, 0,
                    UsDeviceList(UsDevices))>>)
    /\ UNCHANGED <<impl, drvVars, usVars, logVars, streamVars, cmpVars, shutVars, moreVars, seqVars, Receiver, DriverHandle,
                   SimNextId, Authenticated, Attached>>

\* recv() of the header returns 0 or fails: "break"
ClientThreadRecvFails ==
    /\ Receiver = "ClientThread"
    /\ Connected
    /\ Connected' = FALSE
    /\ UNCHANGED <<impl, drvVars, usVars, logVars, streamVars, cmpVars, shutVars, moreVars, seqVars, Receiver, DriverHandle,
                   SimNextId, Authenticated, Request, PayloadRead, Handled, Replies,
                   Attached, Fatal, LaterHandled>>

\* "cleanup:" after the loop
ClientThreadCleanup ==
    /\ Receiver = "ClientThread"
    /\ ~Connected
    /\ \E s \in ConnectedSessions : ClientThread(s)

(* ------ src/client/vusb_client_enhanced.c: ReceiveThread --------------- *)

\* "if (!VusbValidateHeader(&header)) { ...; continue; }"
ReceiveThreadInvalidHeader(h) ==
    /\ Receiver = "ReceiveThread"
    /\ ~h.Valid
    /\ Turn(h, FALSE, FALSE, TRUE, <<>>)
    /\ UNCHANGED <<impl, drvVars, usVars, logVars, streamVars, cmpVars, shutVars, moreVars, seqVars, Receiver,
                   DriverHandle, SimNextId, Authenticated, Attached>>

\* "if (header.Length > VUSB_MAX_PACKET_SIZE) break;"
ReceiveThreadTooLarge(h) ==
    /\ Receiver = "ReceiveThread"
    /\ h.Valid
    /\ h.Length > ClientPayloadLimit
    /\ Turn(h, FALSE, FALSE, FALSE, <<>>)
    /\ UNCHANGED <<impl, drvVars, usVars, logVars, streamVars, cmpVars, shutVars, moreVars, seqVars, Receiver,
                   DriverHandle, SimNextId, Authenticated, Attached>>

\* ProcessServerMessage, case VUSB_CMD_PING: a PONG with header->Sequence
ProcessServerPing(h) ==
    /\ Receiver = "ReceiveThread"
    /\ Accepted(h, ClientPayloadLimit)
    /\ h.Command = VUSB_CMD_PING
    /\ Turn(h, h.Length > 0, TRUE, TRUE,
            <<Frame(VUSB_CMD_PONG, h.Sequence, VUSB_STATUS_SUCCESS, 0, <<>>)>>)
    /\ UNCHANGED <<impl, drvVars, usVars, logVars, streamVars, cmpVars, shutVars, moreVars, seqVars, Receiver,
                   DriverHandle, SimNextId, Authenticated, Attached>>

\* ProcessServerMessage, case VUSB_CMD_SUBMIT_URB: ClientUrbProcess ends in
\* SendUrbCompletion, which numbers its frame with ++ctx->Base.Sequence
ProcessServerSubmitUrb(h, deviceId, status) ==
    /\ Receiver = "ReceiveThread"
    /\ Accepted(h, ClientPayloadLimit)
    /\ h.Command = VUSB_CMD_SUBMIT_URB
    /\ IF h.Length < SubmitPayloadMin
       THEN /\ Turn(h, h.Length > 0, TRUE, TRUE, <<>>)
            /\ UNCHANGED <<Sequence, SeqSent>>
       ELSE /\ Sequence <= MaxSequence
            /\ Turn(h, TRUE, TRUE, TRUE,
                    <<Frame(VUSB_CMD_URB_COMPLETE, Sequence + 1, status, deviceId,
                            <<>>)>>)
            /\ Sequence' = Sequence + 1
            /\ SeqSent' = Append(SeqSent, Sequence + 1)
    /\ UNCHANGED <<impl, drvVars, usVars, logVars, streamVars, cmpVars, shutVars, moreVars, Loaded, Numbered,
                   Receiver, DriverHandle, SimNextId, Authenticated, Attached>>

\* ProcessServerMessage, the other cases (CANCEL_URB, ERROR, default): a
\* printf at most
ProcessServerOther(h) ==
    /\ Receiver = "ReceiveThread"
    /\ Accepted(h, ClientPayloadLimit)
    /\ h.Command \notin {VUSB_CMD_PING, VUSB_CMD_SUBMIT_URB}
    /\ Turn(h, h.Length > 0, TRUE, TRUE, <<>>)
    /\ UNCHANGED <<impl, drvVars, usVars, logVars, streamVars, cmpVars, shutVars, moreVars, seqVars, Receiver,
                   DriverHandle, SimNextId, Authenticated, Attached>>

\* recv() of the header returns 0 or fails: "break"
ReceiveThreadRecvFails ==
    /\ Receiver = "ReceiveThread"
    /\ Connected
    /\ Connected' = FALSE
    /\ UNCHANGED <<impl, drvVars, usVars, logVars, streamVars, cmpVars, shutVars, moreVars, seqVars, Receiver,
                   DriverHandle, SimNextId, Authenticated, Request, PayloadRead,
                   Handled, Replies, Attached, Fatal, LaterHandled>>

(* ---------------------------- SpecSession ------------------------------ *)

\* the connection was accepted (session 1 in client slot 1) or, for the
\* client, VusbClientConnect has returned (its CONNECT took sequence number
\* 1); the server runs with the driver or, when VusbServerOpenDriver failed,
\* without it
InitSession ==
    /\ Receiver \in {"VusbClientThread", "ClientThread", "ReceiveThread"}
    /\ impl = IF Receiver = "ClientThread" THEN "userspace" ELSE "driver"
    /\ DriverHandle \in IF Receiver = "VusbClientThread"
                        THEN {"VirtualUSB", "INVALID_HANDLE_VALUE"}
                        ELSE {"VirtualUSB"}
    /\ Clients = [i \in 1..MaxClients |-> IF i = 1 THEN 1 ELSE 0]
    /\ NextSessionId = 1
    /\ ClientDevices = [s \in Sessions |-> EmptyTracking]
    /\ PendingList = <<>>
    /\ Devices = [i \in 0..(MaxDevices - 1) |-> 0]
    /\ PendingUrbList = <<>>
    /\ NextUrbId = 0
    /\ Completed = [u \in UrbIds |-> <<>>]
    /\ UrbDevice = [u \in UrbIds |-> 0]
    /\ DetachedUrbs = {}
    /\ DeadUrbs = {}
    /\ Owner = [i \in 0..(MaxDevices - 1) |-> 0]
    /\ Ended = {}
    /\ InitUserspace
    /\ InitLogs
    /\ InitSockets
    /\ InitCmpIdle
    /\ InitShutIdle
    /\ InitMoreIdle
    /\ Sequence = IF Receiver = "ReceiveThread" THEN 1 ELSE 0
    /\ Loaded = [t \in SenderThreads |-> -1]
    /\ Numbered = [t \in SenderThreads |-> -1]
    /\ SeqSent = <<>>
    /\ SimNextId = 1
    /\ Connected = TRUE
    /\ Authenticated = FALSE
    /\ Request = NoRequest
    /\ PayloadRead = FALSE
    /\ Handled = FALSE
    /\ Replies = <<>>
    /\ Attached = {}
    /\ Fatal = "none"
    /\ LaterHandled = FALSE

NextSession ==
    \/ \E h \in Headers(ClientCommands) : VusbClientThreadInvalidHeader(h)
    \/ \E h \in Headers(ClientCommands) : VusbClientThreadTooLarge(h)
    \/ \E h \in Headers(ClientCommands) : VusbServerHandleConnect(h)
    \/ \E h \in Headers(ClientCommands) : VusbServerHandleDisconnect(h)
    \/ \E h \in Headers(ClientCommands) : VusbServerSendPong(h)
    \/ \E h \in Headers(ClientCommands) : VusbServerProcessUnknown(h)
    \/ \E h \in Headers(ClientCommands), r \in ServerRemoteIds :
          VusbClientThreadDeviceAttach(h, r)
    \/ \E h \in Headers(ClientCommands), d \in WireDeviceIds :
          VusbClientThreadDeviceDetach(h, d)
    \/ \E h \in Headers(ClientCommands), d \in LocalIds, u \in UrbIds,
          st \in WireStatuses : VusbClientThreadUrbComplete(h, d, u, st)
    \/ \E h \in Headers(ClientCommands) : VusbClientThreadDeviceList(h)
    \/ VusbClientThreadRecvFails
    \/ VusbClientThreadCleanup
    \/ \E h \in Headers(ClientCommands) : ClientThreadInvalidHeader(h)
    \/ \E h \in Headers(ClientCommands) : ClientThreadTooLarge(h)
    \/ \E h \in Headers(ClientCommands) : HandleClientConnect(h)
    \/ \E h \in Headers(ClientCommands) : ClientThreadDisconnect(h)
    \/ \E h \in Headers(ClientCommands) : HandlePing(h)
    \/ \E h \in Headers(ClientCommands) : ClientThreadUnknown(h)
    \/ \E h \in Headers(ClientCommands), r \in RemoteIds :
          ClientThreadDeviceAttach(h, r)
    \/ \E h \in Headers(ClientCommands), d \in 0..MaxDeviceIds :
          ClientThreadDeviceDetach(h, d)
    \/ \E h \in Headers(ClientCommands), r \in RemoteIds, u \in UrbIds,
          st \in WireStatuses : ClientThreadUrbComplete(h, r, u, st)
    \/ \E h \in Headers(ClientCommands) : HandleDeviceList(h)
    \/ ClientThreadRecvFails
    \/ ClientThreadCleanup
    \/ \E h \in Headers(ServerCommands) : ReceiveThreadInvalidHeader(h)
    \/ \E h \in Headers(ServerCommands) : ReceiveThreadTooLarge(h)
    \/ \E h \in Headers(ServerCommands) : ProcessServerPing(h)
    \/ \E h \in Headers(ServerCommands), d \in RemoteIds, st \in WireStatuses :
          ProcessServerSubmitUrb(h, d, st)
    \/ \E h \in Headers(ServerCommands) : ProcessServerOther(h)
    \/ ReceiveThreadRecvFails

SpecSession == InitSession /\ [][NextSession]_vars

(* ============ the enhanced client numbers the frames it sends ========== *)
(* The interactive thread numbers its requests with "++ctx->Sequence"      *)
(* (VusbClientAttachDevice, VusbClientDetachDevice, VusbClientListDevices, *)
(* VusbClientPing); the receive thread numbers URB_COMPLETE frames with    *)
(* "++ctx->Base.Sequence" in SendUrbCompletion.  It is one plain uint32_t  *)
(* and no lock is held: each "++" is a read of the counter followed by a   *)
(* write, and the two threads race on it.                                  *)

\* frames a thread has under way or sent
SeqStarted ==
    Len(SeqSent) +
    Cardinality({u \in SenderThreads : Loaded[u] # -1 \/ Numbered[u] # -1})

\* the read of ctx->Sequence that starts a "++ctx->Sequence"
SequenceLoad(t) ==
    /\ Loaded[t] = -1
    /\ Numbered[t] = -1
    /\ SeqStarted < MaxSeqSent
    /\ Loaded' = [Loaded EXCEPT ![t] = Sequence]
    /\ UNCHANGED <<impl, drvVars, usVars, logVars, streamVars, cmpVars, shutVars, moreVars, sessVars, Sequence,
                   Numbered, SeqSent>>

\* the write that ends the "++"; VusbInitHeader gets the new value
SequenceStore(t) ==
    /\ Loaded[t] # -1
    /\ Sequence' = Loaded[t] + 1
    /\ Numbered' = [Numbered EXCEPT ![t] = Loaded[t] + 1]
    /\ Loaded' = [Loaded EXCEPT ![t] = -1]
    /\ UNCHANGED <<impl, drvVars, usVars, logVars, streamVars, cmpVars, shutVars, moreVars, sessVars, SeqSent>>

\* send() of the frame
SequenceSend(t) ==
    /\ Numbered[t] # -1
    /\ SeqSent' = Append(SeqSent, Numbered[t])
    /\ Numbered' = [Numbered EXCEPT ![t] = -1]
    /\ UNCHANGED <<impl, drvVars, usVars, logVars, streamVars, cmpVars, shutVars, moreVars, sessVars, Sequence,
                   Loaded>>

\* VusbClientConnect has returned: its CONNECT went out with number 1
InitSequence ==
    /\ impl = "driver"
    /\ InitDriver
    /\ InitUserspace
    /\ InitLogs
    /\ InitSockets
    /\ InitCmpIdle
    /\ InitShutIdle
    /\ InitMoreIdle
    /\ InitSessIdle
    /\ Sequence = 1
    /\ Loaded = [t \in SenderThreads |-> -1]
    /\ Numbered = [t \in SenderThreads |-> -1]
    /\ SeqSent = <<1>>

NextSequence ==
    \/ \E t \in SenderThreads : SequenceLoad(t)
    \/ \E t \in SenderThreads : SequenceStore(t)
    \/ \E t \in SenderThreads : SequenceSend(t)

SpecSequence == InitSequence /\ [][NextSequence]_vars

(* ================= the data of a URB completion ======================== *)
(* One URB of the submitter and the URB_COMPLETE frames that reach the     *)
(* server.  Both servers receive into one malloc(VUSB_MAX_PACKET_SIZE)     *)
(* buffer that is reused for every frame, so the bytes behind the payload  *)
(* of a frame are whatever the buffer held before.                         *)

\* VUSB_TRANSFER_TYPE
VUSB_TRANSFER_CONTROL == 0
VUSB_TRANSFER_ISOCHRONOUS == 1
VUSB_TRANSFER_BULK == 2
VUSB_TRANSFER_INTERRUPT == 3

TransferTypes == {VUSB_TRANSFER_CONTROL, VUSB_TRANSFER_ISOCHRONOUS,
                  VUSB_TRANSFER_BULK, VUSB_TRANSFER_INTERRUPT}

Directions == {VUSB_DIR_OUT, VUSB_DIR_IN}

BufferLengths == 0..MaxBuf

ActualLengths == 0..MaxActual

\* the three fields that sit 16 bytes behind UrbId, Status and ActualLength
\* of a URB_COMPLETE payload: the start of the data, or old buffer contents
PayloadTails == [UrbId : UrbIds, Status : WireStatuses, ActualLength : ActualLengths]

\* URB_COMPLETE frames: header.Length, the VUSB_URB_COMPLETE fields, and the
\* bytes behind them.  A frame is shorter than the fixed part, has no data,
\* or has ActualLength bytes of data
UrbCompleteFrames ==
    {f \in [Length : {DetachPayloadMin} \cup
                      {UrbCompletePayloadMin + n : n \in ActualLengths},
            DeviceId : RemoteIds, UrbId : UrbIds, Status : WireStatuses,
            ActualLength : ActualLengths, Tail : PayloadTails] :
        f.Length \in {DetachPayloadMin, UrbCompletePayloadMin,
                      UrbCompletePayloadMin + f.ActualLength}}

\* HandleUrbComplete: "(VUSB_URB_COMPLETE*)(payload - sizeof(VUSB_HEADER))",
\* the fields are read where the sender wrote them
CastBeforePayload(f) ==
    [DeviceId |-> f.DeviceId, UrbId |-> f.UrbId, Status |-> f.Status,
     ActualLength |-> f.ActualLength]

\* VusbServerHandleUrbComplete: "(VUSB_URB_COMPLETE*)payload", the struct
\* starts with the 16-byte header, so every field is read 16 bytes late
CastAtPayload(f) ==
    [UrbId |-> f.Tail.UrbId, Status |-> f.Tail.Status,
     ActualLength |-> f.Tail.ActualLength]

\* VusbCompleteUrb: bytes copied to UrbEntry->TransferBuffer; the direction
\* of the URB is not looked at
DriverCopied(urb, hasData, actualLength) ==
    IF hasData /\ actualLength > 0 /\ urb.TransferBuffer
    THEN IF actualLength < urb.TransferBufferLength
         THEN actualLength
         ELSE urb.TransferBufferLength
    ELSE 0

\* VusbUsCompleteUrb: bytes copied to urb->TransferBuffer
UsCopied(urb, hasData, length) ==
    IF /\ hasData
       /\ length > 0
       /\ urb.Direction = VUSB_DIR_IN
       /\ urb.TransferBuffer
       /\ urb.TransferBufferLength >= length
    THEN length
    ELSE 0

\* ClientUrbProcess: responseDataLength after the transfer
ResponseDataLength(transferType, direction, result, actualLength) ==
    IF direction # VUSB_DIR_IN
    THEN 0
    ELSE IF transferType = VUSB_TRANSFER_CONTROL
         THEN IF result = 0 THEN actualLength ELSE 0
         ELSE IF transferType \in {VUSB_TRANSFER_BULK, VUSB_TRANSFER_INTERRUPT}
              THEN actualLength
              ELSE 0

\* SetupPacket.bRequest of the URBs: the values that are also a
\* VUSB_TRANSFER_TYPE, and 6 (GET_DESCRIPTOR), which is none
RequestSamples == TransferTypes \cup {6}

\* ProcessServerMessage: "(VUSB_URB_SUBMIT*)payload".  The struct starts with
\* the 16-byte header, so every field is read 16 bytes late: DeviceId is
\* the frame's TransferBufferLength, UrbId its Interval, TransferType its
\* SetupPacket.bRequest, Direction the low byte of SetupPacket.wValue, and
\* TransferBufferLength the four bytes behind the fixed part
CastSubmitAtPayload(f) ==
    [DeviceId |-> f.TransferBufferLength, UrbId |-> f.Interval,
     TransferType |-> f.bRequest, Direction |-> f.wValueLow,
     TransferBufferLength |-> f.Behind]

\* IOCTL_VUSB_GET_PENDING_URB from UrbForwarderThread: VusbDequeueUrb takes
\* the entry off PendingUrbList; ServerUrbForward fills the SUBMIT_URB frame
\* from the VUSB_PENDING_URB, whose Interval the driver sets to 0, and sends
\* it to the owner of the device
VusbHandleGetPendingUrb(transferType, bRequest, wValueLow, behind) ==
    /\ impl = "driver"
    /\ Urb.Listed
    /\ Wire = <<>>
    /\ Urb' = [Urb EXCEPT !.Listed = FALSE, !.Forwarded = TRUE]
    /\ Submit' = [DeviceId |-> Urb.RemoteDeviceId, UrbId |-> Urb.UrbId,
                  TransferType |-> transferType, Direction |-> Urb.Direction,
                  TransferBufferLength |-> Urb.TransferBufferLength,
                  Interval |-> 0, bRequest |-> bRequest,
                  wValueLow |-> wValueLow, Behind |-> behind]
    /\ UNCHANGED <<impl, drvVars, usVars, logVars, streamVars, sessVars, seqVars, shutVars, moreVars, Cancel,
                   Wire, Observed>>

\* the ways through ClientUrbProcess: UsbCaptureFindDevice finds nothing,
\* UsbCaptureOpenDevice fails, malloc of the response buffer fails, or the
\* switch on the transfer type is reached
ClientOutcomes == {"nodevice", "openfail", "nomem", "transfer"}

\* ClientUrbProcess: status of the completion
ClientStatus(outcome, result) ==
    IF outcome = "nodevice" THEN VUSB_STATUS_NO_DEVICE
    ELSE IF outcome = "openfail" THEN VUSB_STATUS_ERROR
    ELSE IF outcome = "nomem" THEN VUSB_STATUS_NO_MEMORY
    ELSE IF result = 0 THEN VUSB_STATUS_SUCCESS ELSE VUSB_STATUS_ERROR

\* SendUrbCompletion: the URB_COMPLETE frame; tail is what the data starts with
UrbCompleteFrame(deviceId, urbId, status, actualLength, tail) ==
    [Length |-> UrbCompletePayloadMin + actualLength,
     DeviceId |-> deviceId,
     UrbId |-> urbId,
     Status |-> status,
     ActualLength |-> actualLength,
     Tail |-> tail]

\* ProcessServerMessage case SUBMIT_URB -> ClientUrbProcess -> SendUrbCompletion.
\* The transfer moves at most TransferBufferLength bytes, and WinUSB reports
\* the bytes moved also when it fails; ISOCHRONOUS and unknown types fail
\* without a transfer
ClientUrbProcess(outcome, result, actualLength, tail) ==
    /\ impl = "driver"
    /\ Urb.Forwarded
    /\ Wire = <<>>
    /\ actualLength <= CastSubmitAtPayload(Submit).TransferBufferLength
    /\ outcome # "transfer" => result # 0 /\ actualLength = 0
    /\ outcome = "nomem" =>
          /\ CastSubmitAtPayload(Submit).Direction = VUSB_DIR_IN
          /\ CastSubmitAtPayload(Submit).TransferBufferLength > 0
    /\ CastSubmitAtPayload(Submit).TransferType \notin
          {VUSB_TRANSFER_CONTROL, VUSB_TRANSFER_BULK, VUSB_TRANSFER_INTERRUPT}
          => result # 0 /\ actualLength = 0
    /\ Wire' = <<UrbCompleteFrame(
                    CastSubmitAtPayload(Submit).DeviceId,
                    CastSubmitAtPayload(Submit).UrbId,
                    ClientStatus(outcome, result),
                    IF outcome = "transfer"
                    THEN ResponseDataLength(
                             CastSubmitAtPayload(Submit).TransferType,
                             CastSubmitAtPayload(Submit).Direction,
                             result, actualLength)
                    ELSE 0,
                    tail)>>
    /\ Urb' = [Urb EXCEPT !.Forwarded = FALSE]
    /\ Submit' = NoSubmit
    /\ UNCHANGED <<impl, drvVars, usVars, logVars, streamVars, sessVars, seqVars, shutVars, moreVars, Cancel,
                   Observed>>

\* a CANCEL_URB frame for the URB reaches the client's socket while the
\* client holds the SUBMIT_URB.  ReceiveThread calls ClientUrbProcess and
\* blocks in the WinUSB transfer, so the frame is read after the URB_COMPLETE
\* went out
RecvCancelUrb ==
    /\ Urb.Forwarded
    /\ Cancel = "none"
    /\ Cancel' = "inbound"
    /\ UNCHANGED <<impl, drvVars, usVars, logVars, streamVars, sessVars, seqVars, shutVars, moreVars,
                   Urb, Submit, Wire, Observed>>

\* ProcessServerMessage case CANCEL_URB -> ClientUrbCancel: a printf
ClientUrbCancel ==
    /\ Cancel = "inbound"
    /\ ~Urb.Forwarded
    /\ Cancel' = "handled"
    /\ UNCHANGED <<impl, drvVars, usVars, logVars, streamVars, sessVars, seqVars, shutVars, moreVars,
                   Urb, Submit, Wire, Observed>>

\* the receive loop of a session read a URB_COMPLETE frame; neither server
\* asks whether it sent a SUBMIT_URB for it.  The URB is followed until it is
\* completed, one frame at a time
RecvUrbComplete(f) ==
    /\ ~Observed.Done
    /\ ~Urb.Forwarded
    /\ Wire = <<>>
    /\ Wire' = <<f>>
    /\ UNCHANGED <<impl, drvVars, usVars, logVars, streamVars, sessVars, seqVars, shutVars, moreVars, Submit, Cancel,
                   Urb, Observed>>

\* VusbServerHandleUrbComplete -> IOCTL_VUSB_COMPLETE_URB ->
\* VusbHandleCompleteUrb -> VusbCompleteUrb.  The IOCTL input is
\* sizeof(VUSB_URB_COMPLETION) + ActualLength bytes, so the driver's "data" is
\* set whenever ActualLength > 0; the request is completed with
\* Information = ActualLength
VusbHandleCompleteUrb ==
    /\ impl = "driver"
    /\ Wire # <<>>
    /\ Wire' = Tail(Wire)
    /\ IF /\ Head(Wire).Length >= UrbCompletePayloadMin
          /\ DriverHandle # "INVALID_HANDLE_VALUE"
          /\ Urb.Listed
          /\ CastAtPayload(Head(Wire)).UrbId = Urb.UrbId
       THEN /\ Observed' =
                 [Done |-> TRUE,
                  Success |-> NtStatusOf(CastAtPayload(Head(Wire)).Status)
                                 = "STATUS_SUCCESS",
                  ActualLength |-> CastAtPayload(Head(Wire)).ActualLength,
                  Copied |-> DriverCopied(
                      Urb, CastAtPayload(Head(Wire)).ActualLength > 0,
                      CastAtPayload(Head(Wire)).ActualLength)]
            /\ Urb' = [Urb EXCEPT !.Listed = FALSE]
       ELSE UNCHANGED <<Urb, Observed>>
    /\ UNCHANGED <<impl, drvVars, usVars, logVars, streamVars, sessVars, seqVars, shutVars, moreVars, Submit, Cancel>>

\* HandleUrbComplete -> VusbUsCompleteUrb: the device is looked up by
\* RemoteDeviceId and the URB by UrbId; "data" is set when ActualLength > 0;
\* urb->Status and urb->ActualLength take the frame's values
VusbUsCompleteUrb ==
    /\ impl = "userspace"
    /\ Wire # <<>>
    /\ Wire' = Tail(Wire)
    /\ IF /\ Head(Wire).Length >= UrbCompletePayloadMin
          /\ CastBeforePayload(Head(Wire)).DeviceId = Urb.RemoteDeviceId
          /\ Urb.Listed
          /\ CastBeforePayload(Head(Wire)).UrbId = Urb.UrbId
       THEN /\ Observed' =
                 [Done |-> TRUE,
                  Success |-> CastBeforePayload(Head(Wire)).Status
                                 = VUSB_STATUS_SUCCESS,
                  ActualLength |-> CastBeforePayload(Head(Wire)).ActualLength,
                  Copied |-> UsCopied(
                      Urb, CastBeforePayload(Head(Wire)).ActualLength > 0,
                      CastBeforePayload(Head(Wire)).ActualLength)]
            /\ Urb' = [Urb EXCEPT !.Listed = FALSE]
       ELSE UNCHANGED <<Urb, Observed>>
    /\ UNCHANGED <<impl, drvVars, usVars, logVars, streamVars, sessVars, seqVars, shutVars, moreVars, Submit, Cancel>>

\* one URB is pending: VusbQueueUrb put it on PendingUrbList, VusbUsSubmitUrb
\* on device->PendingUrbs.  Direction, buffer and length are the submitter's
InitComplete ==
    /\ impl \in {"driver", "userspace"}
    /\ InitDriver
    /\ InitUserspace
    /\ InitLogs
    /\ InitSockets
    /\ InitSessIdle
    /\ InitSeqIdle
    /\ InitShutIdle
    /\ InitMoreIdle
    /\ Urb \in [UrbId : {1}, RemoteDeviceId : {1}, Direction : Directions,
                TransferBufferLength : BufferLengths, TransferBuffer : BOOLEAN,
                Listed : {TRUE}, Forwarded : {FALSE}]
    /\ Submit = NoSubmit
    /\ Cancel = "none"
    /\ Wire = <<>>
    /\ Observed = NotObserved

NextComplete ==
    \/ \E tt \in TransferTypes, rq \in RequestSamples, wv \in Directions,
          behind \in BufferLengths :
          VusbHandleGetPendingUrb(tt, rq, wv, behind)
    \/ \E o \in ClientOutcomes, r \in {0, -1}, n \in BufferLengths,
          tail \in PayloadTails :
          ClientUrbProcess(o, r, n, tail)
    \/ RecvCancelUrb
    \/ ClientUrbCancel
    \/ \E f \in UrbCompleteFrames : RecvUrbComplete(f)
    \/ VusbHandleCompleteUrb
    \/ VusbUsCompleteUrb

SpecComplete == InitComplete /\ [][NextComplete]_vars

(* ============================ server shutdown ========================== *)
(* src/server: main() calls VusbServerCleanup when VusbServerRun returns,  *)
(* and the process ends when it returns.  src/userspace: main() calls      *)
(* VusbUsCleanup.  ServerUrbStop has no caller.                            *)

\* URBs that wait for a completion: created by the driver and not completed,
\* or on the PendingUrbs list of a userspace device
PendingNow ==
    IF impl = "driver"
    THEN {u \in UrbIds : UrbDevice[u] # 0 /\ Completed[u] = <<>>}
    ELSE UNION {UsPendingKeys(UsDevices, d) : d \in 1..MaxDeviceIds}

\* VusbServerCleanup up to "Sleep(1000)": Running = FALSE, the listen socket
\* and every client socket are closed, Connected = FALSE in every session
VusbServerCleanup ==
    /\ impl = "driver"
    /\ Running
    /\ Running' = FALSE
    /\ AtShutdown' = PendingNow
    /\ UNCHANGED <<impl, drvVars, usVars, logVars, streamVars, sessVars, seqVars,
                   cmpVars, moreVars, CleanedUp>>

\* a client thread sees its closed socket and runs VusbServerDisconnectClient
\* while VusbServerCleanup sleeps
VusbClientThreadExits(s) ==
    /\ ~Running
    /\ ~CleanedUp
    /\ VusbServerDisconnectClient(s)

\* VusbServerCleanup after the Sleep: the driver handle is closed and the
\* client array freed, whether or not the client threads are through
VusbServerCleanupReturns ==
    /\ impl = "driver"
    /\ ~Running
    /\ ~CleanedUp
    /\ CleanedUp' = TRUE
    /\ UNCHANGED <<impl, drvVars, usVars, logVars, streamVars, sessVars, seqVars,
                   cmpVars, moreVars, Running, AtShutdown>>

\* VusbUsCleanup: VusbUsStop (Running = FALSE, listen socket closed), then
\* CleanupDevice on every Active device; the client sockets and ctx->Clients[]
\* are not touched
VusbUsCleanup ==
    /\ impl = "userspace"
    /\ Running
    /\ Running' = FALSE
    /\ AtShutdown' = PendingNow
    /\ UsDevices' = [i \in UsSlots |->
           IF UsDevices[i].Active THEN CleanupDevice(UsDevices[i]) ELSE UsDevices[i]]
    /\ CleanedUp' = TRUE
    /\ UNCHANGED <<impl, drvVars, NextDeviceId, DeviceIds, UsCompleted, logVars,
                   streamVars, sessVars, seqVars, cmpVars, moreVars>>

InitShutdown ==
    /\ impl \in {"driver", "userspace"}
    /\ InitDriver
    /\ InitUserspace
    /\ InitLogs
    /\ InitSockets
    /\ InitSessIdle
    /\ InitSeqIdle
    /\ InitCmpIdle
    /\ InitShutIdle
    /\ InitMoreIdle

\* the server at work until the cleanup begins: sessions come and go,
\* devices are attached, URBs are queued, forwarded and completed
NextShutdown ==
    \/ Running /\ VusbServerAcceptClient
    \/ \E s \in Sessions, r \in ServerRemoteIds :
          Running /\ VusbServerHandleDeviceAttach(s, r)
    \/ \E s \in Sessions, d \in LocalIds, u \in UrbIds, st \in WireStatuses :
          Running /\ VusbServerHandleUrbComplete(s, d, u, st)
    \/ \E s \in Sessions : Running /\ VusbServerDisconnectClient(s)
    \/ Running /\ UrbForwarderThread
    \/ \E d \in LocalIds : Running /\ VusbQueueUrb(d)
    \/ Running /\ UsAcceptClient
    \/ \E s \in Sessions, r \in RemoteIds : Running /\ HandleDeviceAttach(s, r)
    \/ \E s \in Sessions, r \in RemoteIds, u \in UrbIds, st \in WireStatuses :
          Running /\ HandleUrbComplete(s, r, u, st)
    \/ \E s \in Sessions : Running /\ ClientThread(s)
    \/ \E d \in 1..MaxDeviceIds : Running /\ VusbUsSubmitUrb(d)
    \/ VusbServerCleanup
    \/ \E s \in Sessions : VusbClientThreadExits(s)
    \/ VusbServerCleanupReturns
    \/ VusbUsCleanup

SpecShutdown == InitShutdown /\ [][NextShutdown]_vars

(* ======= the driver's pending-URB queue and its IOCTLs (SpecPull) ======= *)

\* sizeof(VUSB_PENDING_URB), sizeof(VUSB_URB_SUBMIT), sizeof(VUSB_URB_COMPLETE)
PendingUrbSize == 36
UrbSubmitSize == 48
UrbCompleteSize == HeaderSize + UrbCompletePayloadMin

\* transfer lengths of the URBs the USB stack submits: none, the largest whose
\* SUBMIT_URB frame has VUSB_MAX_PACKET_SIZE bytes, one more, and the smallest
\* OUT length that no longer fits the forwarder's output buffer
TransferLengths ==
    {0, VUSB_MAX_PACKET_SIZE - UrbSubmitSize, VUSB_MAX_PACKET_SIZE - UrbSubmitSize + 1,
     VUSB_MAX_PACKET_SIZE - PendingUrbSize + 1}

\* the output buffer UrbForwarderThread passes to IOCTL_VUSB_GET_PENDING_URB
ForwarderBufferSize == VUSB_MAX_PACKET_SIZE

\* everything the queue and its IOCTLs leave alone
pullRest == <<impl, streamVars, sessVars, seqVars, cmpVars, shutVars, raceVars, basicVars, usVars, Clients, NextSessionId, ClientDevices, PendingList,
              Devices, DetachedUrbs, DeadUrbs, Owner, Ended, logVars>>

\* requiredSize of VusbHandleGetPendingUrb
RequiredSize(urbEntry) ==
    PendingUrbSize +
        (IF urbEntry.Direction = VUSB_DIR_OUT THEN urbEntry.TransferBufferLength ELSE 0)

\* sendSize of ServerUrbForward
SendSize(pendingUrb) ==
    UrbSubmitSize +
        (IF pendingUrb.Direction = VUSB_DIR_OUT /\ pendingUrb.TransferBufferLength > 0
         THEN pendingUrb.TransferBufferLength ELSE 0)

\* totalSize of SendUrbCompletion
TotalSize(actualLength) == UrbCompleteSize + actualLength

\* the URB was returned by GET_PENDING_URB and its request is not completed
HandedAndOpen(urbId) ==
    /\ \E i \in 1..Len(Handed) : Handed[i].UrbId = urbId
    /\ Completed[urbId] = <<>>

\* the USB stack submits a URB: VusbQueueUrb, InsertTailList
VusbQueueSizedUrb(direction, length) ==
    /\ impl = "driver"
    /\ NextUrbId < MaxUrbs
    /\ NextUrbId' = NextUrbId + 1
    /\ PendingUrbList' = Append(PendingUrbList,
           [UrbId |-> NextUrbId + 1, DeviceId |-> 1, Direction |-> direction,
            TransferBufferLength |-> length])
    /\ UrbDevice' = [UrbDevice EXCEPT ![NextUrbId + 1] = 1]
    /\ UNCHANGED <<pullRest, Completed, pullVars>>

\* one turn of UrbForwarderThread: IOCTL_VUSB_GET_PENDING_URB with its buffer,
\* and ServerUrbForward of what the driver returned.  VusbHandleGetPendingUrb
\* takes the head (RemoveHeadList); when the buffer is too small for it the
\* entry goes back through VusbQueueUrb, that is to the tail
ForwarderPull(outputBufferLength) ==
    /\ impl = "driver"
    /\ PendingUrbList # <<>>
    /\ IF outputBufferLength < RequiredSize(Head(PendingUrbList))
       THEN /\ PendingUrbList' = Append(Tail(PendingUrbList), Head(PendingUrbList))
            /\ Ioctl' = [Code |-> "GET_PENDING_URB", UrbId |-> Head(PendingUrbList).UrbId,
                         Status |-> "STATUS_BUFFER_TOO_SMALL", WasHanded |-> FALSE]
            /\ UNCHANGED <<Handed, Frames>>
       ELSE /\ PendingUrbList' = Tail(PendingUrbList)
            /\ Ioctl' = [Code |-> "GET_PENDING_URB", UrbId |-> Head(PendingUrbList).UrbId,
                         Status |-> "STATUS_SUCCESS", WasHanded |-> FALSE]
            /\ Handed' = Append(Handed, Head(PendingUrbList))
            /\ Frames' = Append(Frames, [Command |-> VUSB_CMD_SUBMIT_URB,
                                         Size |-> SendSize(Head(PendingUrbList))])
    /\ UNCHANGED <<pullRest, NextUrbId, Completed, UrbDevice>>

\* IOCTL_VUSB_COMPLETE_URB: VusbFindUrb on the pending list, STATUS_NOT_FOUND
\* when the UrbId is not on it
VusbHandleCompleteUrbIoctl(urbId, status) ==
    /\ impl = "driver"
    /\ Ioctl' = [Code |-> "COMPLETE_URB", UrbId |-> urbId,
                 Status |-> IF FindUrbIndex(PendingUrbList, urbId) = 0
                            THEN "STATUS_NOT_FOUND" ELSE "STATUS_SUCCESS",
                 WasHanded |-> HandedAndOpen(urbId)]
    /\ DriverFindAndComplete(urbId, NtStatusOf(status))
    /\ UNCHANGED <<pullRest, NextUrbId, UrbDevice, Handed, Frames>>

\* IOCTL_VUSB_CANCEL_URB: VusbCancelUrb, STATUS_SUCCESS whether or not the
\* UrbId was found
VusbHandleCancelUrb(urbId) ==
    /\ impl = "driver"
    /\ Ioctl' = [Code |-> "CANCEL_URB", UrbId |-> urbId, Status |-> "STATUS_SUCCESS",
                 WasHanded |-> HandedAndOpen(urbId)]
    /\ DriverFindAndComplete(urbId, "STATUS_CANCELLED")
    /\ UNCHANGED <<pullRest, NextUrbId, UrbDevice, Handed, Frames>>

\* the client answers a SUBMIT_URB: SendUrbCompletion with the actualLength
\* of the transfer, which the client bounds by the TransferBufferLength it
\* read from the frame
SendSizedUrbCompletion(transferBufferLength, actualLength) ==
    /\ Len(SelectSeq(Frames, LAMBDA f : f.Command = VUSB_CMD_URB_COMPLETE))
          < Len(SelectSeq(Frames, LAMBDA f : f.Command = VUSB_CMD_SUBMIT_URB))
    /\ actualLength <= transferBufferLength
    /\ Frames' = Append(Frames, [Command |-> VUSB_CMD_URB_COMPLETE,
                                 Size |-> TotalSize(actualLength)])
    /\ UNCHANGED <<pullRest, drvVars, Handed, Ioctl>>

InitPull ==
    /\ impl = "driver"
    /\ InitDriver
    /\ InitUserspace
    /\ InitLogs
    /\ InitSockets
    /\ InitSessIdle
    /\ InitSeqIdle
    /\ InitCmpIdle
    /\ InitShutIdle
    /\ InitMoreIdle

NextPull ==
    \/ \E d \in Directions, n \in TransferLengths : VusbQueueSizedUrb(d, n)
    \/ ForwarderPull(ForwarderBufferSize)
    \/ \E u \in UrbIds, st \in WireStatuses : VusbHandleCompleteUrbIoctl(u, st)
    \/ \E u \in UrbIds : VusbHandleCancelUrb(u)
    \/ \E n \in TransferLengths, a \in TransferLengths : SendSizedUrbCompletion(n, a)

SpecPull == InitPull /\ [][NextPull]_vars

(* ========= URB_COMPLETE frames of one session only (SpecOwner) ========= *)

\* the session whose URB_COMPLETE frames arrive; the other sessions attach
\* devices and send no completion
Sender == MaxSessions

\* sessions are accepted, devices attached, URBs queued and forwarded; no
\* device is detached, no session ends and no URB is cancelled, so that only
\* a URB_COMPLETE frame can complete a URB
NextOwner ==
    \/ VusbServerAcceptClient
    \/ \E s \in Sessions, r \in ServerRemoteIds : VusbServerHandleDeviceAttach(s, r)
    \/ \E d \in LocalIds : VusbQueueUrb(d)
    \/ UrbForwarderThread
    \/ \E d \in LocalIds, u \in UrbIds, st \in WireStatuses :
          VusbServerHandleUrbComplete(Sender, d, u, st)
    \/ UsAcceptClient
    \/ \E s \in Sessions, r \in RemoteIds : HandleDeviceAttach(s, r)
    \/ \E d \in 1..MaxDeviceIds : VusbUsSubmitUrb(d)
    \/ \E r \in RemoteIds, u \in UrbIds, st \in WireStatuses :
          HandleUrbComplete(Sender, r, u, st)

SpecOwner == Init /\ [][NextOwner]_vars

(* ===== the forwarder and a concurrent disconnect (SpecRace) ===== *)

\* everything the forwarder leaves alone
raceRest == <<impl, streamVars, sessVars, seqVars, cmpVars, shutVars, pullVars, basicVars, usVars,
              Clients, NextSessionId, ClientDevices, Devices, NextUrbId, UrbDevice,
              DetachedUrbs, DeadUrbs, Owner, Ended, Answered, Expired>>

\* UrbForwarderThread pulls a URB and ServerUrbForward looks its client up:
\* ServerUrbFindClientForDevice holds ClientLock for the search and returns
\* the bare pointer.  Without a client the URB is answered NO_DEVICE, which
\* the driver no longer finds
ServerUrbForwardLookup ==
    /\ impl = "driver"
    /\ Forwarding = NoForward
    /\ PendingUrbList # <<>>
    /\ PendingUrbList' = Tail(PendingUrbList)
    /\ Pulled' = Append(Pulled, Head(PendingUrbList).UrbId)
    /\ Forwarding' =
          IF ServerUrbFindClientForDevice(Head(PendingUrbList).DeviceId) = 0
          THEN NoForward
          ELSE [UrbId |-> Head(PendingUrbList).UrbId,
                DeviceId |-> Head(PendingUrbList).DeviceId,
                Client |-> ServerUrbFindClientForDevice(Head(PendingUrbList).DeviceId)]
    /\ UNCHANGED <<raceRest, PendingList, Completed, SubmitSent>>

\* the rest of ServerUrbForward: tracking->Client = client, then
\* send(client->Socket).  When the client was freed in between, the read of
\* client->Socket is a use after free: the frame goes out on whatever handle
\* is read, or send() fails
ServerUrbForwardUse(delivered) ==
    /\ impl = "driver"
    /\ Forwarding # NoForward
    /\ Forwarding.Client \in ConnectedSessions => delivered
    /\ PendingList' = <<Forwarding>> \o PendingList
    /\ SubmitSent' = IF delivered
                     THEN SendSubmit(SubmitSent,
                              [UrbId |-> Forwarding.UrbId, DeviceId |-> Forwarding.DeviceId,
                               Client |-> Forwarding.Client,
                               RemoteId |-> RemoteIdOf(Forwarding.DeviceId)])
                     ELSE SubmitSent
    /\ Forwarding' = NoForward
    /\ UNCHANGED <<raceRest, PendingUrbList, Completed, Pulled>>

InitRace ==
    /\ impl = "driver"
    /\ InitDriver
    /\ InitUserspace
    /\ InitLogs
    /\ InitSockets
    /\ InitIdle

NextRace ==
    \/ VusbServerAcceptClient
    \/ \E s \in Sessions, r \in ServerRemoteIds : VusbServerHandleDeviceAttach(s, r)
    \/ \E d \in LocalIds : VusbQueueUrb(d)
    \/ \E s \in Sessions : VusbServerDisconnectClient(s)
    \/ ServerUrbForwardLookup
    \/ \E delivered \in BOOLEAN : ServerUrbForwardUse(delivered)

SpecRace == InitRace /\ [][NextRace]_vars

(* ========== the basic client's requests and responses (SpecBasic) ========== *)

\* sizeof(VUSB_DEVICE_LIST_RESPONSE) = 24 bytes, sizeof(VUSB_DEVICE_INFO) = 208
\* bytes, in 8-byte units
ListResponseUnits == 3
DeviceInfoUnits == 26

\* devices the server has to list
MaxListed == 1

\* everything the basic client and its server leave alone
basicRest == <<impl, drvVars, usVars, logVars, sessVars, seqVars, cmpVars, shutVars,
               wireVars, RecvNeed, UserNeed, Unanswered, Readers, Dispatched>>

\* the units of the response to request number f: its command and size
ResponseUnits(f, command, n) ==
    [i \in 1..n |-> [frame |-> f, command |-> command, off |-> i - 1, units |-> n]]

\* what the server sends for a request: the attach response, the detach
\* acknowledgement (a bare header, DEVICE_DETACH from the driver-backed server
\* and STATUS from the userspace one), PONG, or the list response with
\* deviceCount VUSB_DEVICE_INFO records
ResponseTo(request, deviceCount) ==
    IF request.Command = VUSB_CMD_DEVICE_ATTACH
    THEN ResponseUnits(request.Sequence, VUSB_CMD_DEVICE_ATTACH, AttachResponseUnits)
    ELSE IF request.Command = VUSB_CMD_DEVICE_DETACH
    THEN ResponseUnits(request.Sequence,
                       IF impl = "driver" THEN VUSB_CMD_DEVICE_DETACH ELSE VUSB_CMD_STATUS,
                       HeaderUnits)
    ELSE IF request.Command = VUSB_CMD_PING
    THEN ResponseUnits(request.Sequence, VUSB_CMD_PONG, HeaderUnits)
    ELSE ResponseUnits(request.Sequence, VUSB_CMD_DEVICE_LIST,
                       ListResponseUnits + deviceCount * DeviceInfoUnits)

\* response.DeviceCount of the bytes VusbClientListDevices read: the count of
\* a list response when the bytes are the head of one, anything otherwise
DeviceCountRead(got, other) ==
    IF got[ListResponseUnits].command = VUSB_CMD_DEVICE_LIST /\
       got[ListResponseUnits].off = ListResponseUnits - 1
    THEN (got[ListResponseUnits].units - ListResponseUnits) \div DeviceInfoUnits
    ELSE other

\* the send() of a request: ++ctx->Sequence goes into its header
BasicSend(command) ==
    /\ Waiting = NoWait
    /\ NextFrame < MaxFrames
    /\ NextFrame' = NextFrame + 1
    /\ ToServer' = Append(ToServer, [Command |-> command, Sequence |-> NextFrame + 1])

\* VusbClientAttachDevice up to its recv(sizeof(response), MSG_WAITALL)
BasicAttachDevice ==
    /\ BasicSend(VUSB_CMD_DEVICE_ATTACH)
    /\ Waiting' = [Command |-> VUSB_CMD_DEVICE_ATTACH, Sequence |-> NextFrame + 1,
                   Need |-> AttachResponseUnits, Got |-> <<>>]
    /\ UNCHANGED <<basicRest, Inbound, LastRead, pullVars, raceVars>>

\* VusbClientDetachDevice: the request is sent and the function returns
BasicDetachDevice ==
    /\ BasicSend(VUSB_CMD_DEVICE_DETACH)
    /\ UNCHANGED <<basicRest, Inbound, Waiting, LastRead, pullVars, raceVars>>

\* VusbClientPing up to its recv(sizeof(response), MSG_WAITALL)
BasicPing ==
    /\ BasicSend(VUSB_CMD_PING)
    /\ Waiting' = [Command |-> VUSB_CMD_PING, Sequence |-> NextFrame + 1,
                   Need |-> HeaderUnits, Got |-> <<>>]
    /\ UNCHANGED <<basicRest, Inbound, LastRead, pullVars, raceVars>>

\* VusbClientListDevices up to its first recv()
BasicListDevices ==
    /\ BasicSend(VUSB_CMD_DEVICE_LIST)
    /\ Waiting' = [Command |-> VUSB_CMD_DEVICE_LIST, Sequence |-> NextFrame + 1,
                   Need |-> ListResponseUnits, Got |-> <<>>]
    /\ UNCHANGED <<basicRest, Inbound, LastRead, pullVars, raceVars>>

\* the recv() the client waits in gets its bytes.  After the head of a list
\* response the client goes on to read DeviceCount records; every other read
\* ends the request
BasicRecv(other) ==
    /\ Waiting # NoWait
    /\ Len(Inbound) >= Waiting.Need
    /\ Inbound' = Drop(Inbound, Waiting.Need)
    /\ IF Waiting.Command = VUSB_CMD_DEVICE_LIST /\ Waiting.Got = <<>> /\
          DeviceCountRead(Take(Inbound, Waiting.Need), other) > 0
       THEN /\ Waiting' = [Waiting EXCEPT
                   !.Need = DeviceCountRead(Take(Inbound, Waiting.Need), other)
                                * DeviceInfoUnits,
                   !.Got = Take(Inbound, Waiting.Need)]
            /\ UNCHANGED LastRead
       ELSE /\ LastRead' = [Waiting EXCEPT !.Got = @ \o Take(Inbound, Waiting.Need)]
            /\ Waiting' = NoWait
    /\ UNCHANGED <<basicRest, NextFrame, ToServer, pullVars, raceVars>>

\* the server's receive loop handles the next request and sends its response
ServerAnswers(deviceCount) ==
    /\ ToServer # <<>>
    /\ ToServer' = Tail(ToServer)
    /\ Inbound' = Inbound \o ResponseTo(Head(ToServer), deviceCount)
    /\ UNCHANGED <<basicRest, NextFrame, Waiting, LastRead, pullVars, raceVars>>

InitBasic ==
    /\ impl \in {"driver", "userspace"}
    /\ InitDriver
    /\ InitUserspace
    /\ InitLogs
    /\ InitSockets
    /\ InitIdle

NextBasic ==
    \/ BasicAttachDevice
    \/ BasicDetachDevice
    \/ BasicPing
    \/ BasicListDevices
    \/ \E other \in 0..MaxListed : BasicRecv(other)
    \/ \E n \in 0..MaxListed : ServerAnswers(n)

SpecBasic == InitBasic /\ [][NextBasic]_vars

(* ============================ properties =============================== *)

\* sessions connected after the step
ConnectedSessionsNext == ConnectedSessions'

\* s is torn down in this step
TornDown(s) == s \in ConnectedSessions /\ s \notin ConnectedSessionsNext

\* driver side: URBs created for a device that is still plugged and owned by
\* s, and not completed yet
DrvPendingOf(s) ==
    {u \in UrbIds : /\ UrbDevice[u] # 0
                    /\ u \notin DeadUrbs
                    /\ Owner[UrbDevice[u] - 1] = s
                    /\ Completed[u] = <<>>}

\* driver side: the same for one device id
DrvPendingOn(d) ==
    {u \in UrbIds : UrbDevice[u] = d /\ u \notin DeadUrbs /\ Completed[u] = <<>>}

\* userspace side: keys of the URBs pending on Active devices owned by s
UsPendingOf(s) ==
    UNION {UsPendingKeys(UsDevices, UsDevices[i].DeviceId) :
             i \in {j \in UsSlots : UsDevices[j].Active /\ UsDevices[j].OwnerClient = s}}

\* C1: for every (device, urb id) the completion towards the submitter (the
\* driver completing the request, the userspace server signalling the event
\* and calling the callback) happens at most once, whatever the order of
\* URB_COMPLETE frames, cancels, detaches and session teardown.
C1_CompletedAtMostOnce ==
    /\ \A u \in UrbIds : Len(Completed[u]) <= 1
    /\ \A k \in UsKeys : Len(UsCompleted[k]) <= 1

\* C1 witness: a URB was cancelled, its device was detached afterwards, and a
\* second URB was completed by a client
C1_Witness ==
    /\ impl = "driver"
    /\ \E u \in UrbIds : Completed[u] = <<"STATUS_CANCELLED">> /\ u \in DetachedUrbs
    /\ \E u \in UrbIds : Completed[u] = <<"STATUS_SUCCESS">>

\* C2: once a session has ended the registry holds no device owned by it and
\* the server's pending-URB table holds no entry owned by it.
C2_EndedSessionOwnsNothing ==
    \A s \in Ended :
        /\ \A i \in 0..(MaxDevices - 1) : Devices[i] # 0 => Owner[i] # s
        /\ \A i \in 1..Len(PendingList) : PendingList[i].Client # s
        /\ \A i \in UsSlots : UsDevices[i].Active => UsDevices[i].OwnerClient # s

\* C3: when a session is torn down, every URB pending on a device it owns is
\* completed with NoDevice, exactly once.
C3_TeardownCompletesWithNoDevice ==
    [][\A s \in Sessions : TornDown(s) =>
          /\ \A u \in DrvPendingOf(s) :
                Completed'[u] = <<NtStatusOf(VUSB_STATUS_NO_DEVICE)>>
          /\ \A k \in UsPendingOf(s) :
                UsCompleted'[k] = <<VUSB_STATUS_NO_DEVICE>>]_vars

\* driver side: the owner s of plugged device d detaches it in this step (the
\* device leaves the registry, s stays connected and its own tracking of d is
\* cleared)
DrvOwnerDetaches(s, d) ==
    /\ Devices[d - 1] # 0
    /\ Devices'[d - 1] = 0
    /\ Owner[d - 1] = s
    /\ s \in ConnectedSessionsNext
    /\ d \in TrackedIds(ClientDevices[s])
    /\ ClientDevices'[s] # ClientDevices[s]

\* userspace side: the owner s of the device in slot i detaches it in this step
UsOwnerDetaches(s, i) ==
    /\ UsDevices[i].Active
    /\ UsDevices[i].OwnerClient = s
    /\ s \in ConnectedSessionsNext
    /\ VusbUsGetDevice(UsDevices', UsDevices[i].DeviceId) = -1

\* statuses C4 allows for a URB that dies with its device
DrvDetachStatuses ==
    {"STATUS_CANCELLED", NtStatusOf(VUSB_STATUS_CANCELED), NtStatusOf(VUSB_STATUS_NO_DEVICE)}

\* C4: a DEVICE_DETACH from the owner of a device with pending URBs completes
\* each of them exactly once, with Cancelled (5) or NoDevice (6).
C4_DetachCompletesPending ==
    [][/\ \A s \in Sessions, d \in LocalIds : DrvOwnerDetaches(s, d) =>
             \A u \in DrvPendingOn(d) :
                /\ Len(Completed'[u]) = 1
                /\ Completed'[u][1] \in DrvDetachStatuses
       /\ \A s \in Sessions, i \in UsSlots : UsOwnerDetaches(s, i) =>
             \A k \in UsPendingKeys(UsDevices, UsDevices[i].DeviceId) :
                /\ Len(UsCompleted'[k]) = 1
                /\ UsCompleted'[k][1] \in {VUSB_STATUS_CANCELED, VUSB_STATUS_NO_DEVICE}
      ]_vars

\* C5: once DEVICE_DETACH for a device has been handled, no completion fires
\* for any URB of that device; a URB_COMPLETE that arrives later is dropped.
C5_NoCompletionAfterDetach ==
    [][IF impl = "driver"
       THEN \A u \in DetachedUrbs : Completed'[u] = Completed[u]
       ELSE \A k \in DetachedUrbs : UsCompleted'[k] = UsCompleted[k]]_vars

\* C6: DEVICE_DETACH removes a device only when its sender owns it: a device
\* that leaves the registry in a step that tears no session down was detached
\* by its owner (whose own record of the device is cleared in that step).
C6_DetachOnlyByOwner ==
    [][ConnectedSessionsNext = ConnectedSessions =>
          /\ \A d \in LocalIds :
                (Devices[d - 1] # 0 /\ Devices'[d - 1] = 0) =>
                   /\ Owner[d - 1] \in ConnectedSessions
                   /\ ClientDevices'[Owner[d - 1]] # ClientDevices[Owner[d - 1]]
          /\ \A i \in UsSlots :
                (UsDevices[i].Active /\
                 VusbUsGetDevice(UsDevices', UsDevices[i].DeviceId) = -1) =>
                   /\ UsDevices[i].OwnerClient \in ConnectedSessions
                   /\ DeviceIds'[UsDevices[i].OwnerClient] #
                         DeviceIds[UsDevices[i].OwnerClient]
      ]_vars

\* C7: every active local device id is owned by exactly one session at every
\* moment, also after the id has been handed out again.
C7_ExactlyOneOwner ==
    /\ \A d \in LocalIds : Devices[d - 1] # 0 =>
          Cardinality({s \in ConnectedSessions :
                          d \in TrackedIds(ClientDevices[s])}) = 1
    /\ \A i \in UsSlots : UsDevices[i].Active =>
          /\ UsDevices[i].OwnerClient \in ConnectedSessions
          /\ Cardinality({s \in ConnectedSessions :
                UsDevices[i].DeviceId \in Range(DeviceIds[s])}) = 1

\* C8: the teardown of one session changes only that session's state: the
\* devices, device records and pending URBs of the other sessions stay.
C8_TeardownTouchesOnlyOwnState ==
    [][\A s \in Sessions : TornDown(s) =>
          /\ \A t \in Sessions \ {s} :
                /\ ClientDevices'[t] = ClientDevices[t]
                /\ DeviceIds'[t] = DeviceIds[t]
                /\ (t \in ConnectedSessions <=> t \in ConnectedSessionsNext)
          /\ \A i \in 0..(MaxDevices - 1) :
                (Devices[i] # 0 /\ Owner[i] # s) => Devices'[i] = Devices[i]
          /\ \A i \in UsSlots :
                (UsDevices[i].Active /\ UsDevices[i].OwnerClient # s) =>
                   UsDevices'[i] = UsDevices[i]
          /\ PendingUrbList' = PendingUrbList
      ]_vars

\* C9: frames written to one session socket by different tasks never
\* interleave: a piece that does not end its frame is followed on the socket
\* by the next piece of the same frame.
C9_FramesNeverInterleave ==
    /\ \A i \in 1..(Len(Sent) - 1) :
          ~Sent[i].last => Sent[i + 1].frame = Sent[i].frame
    /\ \A i \in 1..(Len(SentUp) - 1) :
          ~SentUp[i].last => SentUp[i + 1].frame = SentUp[i].frame

\* C10: on the client the read end of the socket is used by the receive task
\* alone.
C10_OnlyReceiveThreadReads ==
    Readers \subseteq {"ReceiveThread"}

\* C11: once a URB_COMPLETE that matches a pending (device, urb id) of the
\* server pending-URB table has been handled, the table holds no entry for
\* that URB and the original request has been completed.
C11_CompleteRemovesEntry ==
    \A u \in Answered :
        /\ ~\E i \in 1..Len(PendingList) : PendingList[i].UrbId = u
        /\ Len(Completed[u]) = 1

\* C12: every SUBMIT_URB frame names the device by the remote id its owning
\* client supplied at attach.
C12_SubmitCarriesRemoteId ==
    \A i \in 1..Len(SubmitSent) : SubmitSent[i].DeviceId = SubmitSent[i].RemoteId

\* C13: the server pending-URB table never holds two entries with the same
\* (device, urb id) key, and no key is sent in two SUBMIT_URB frames: a
\* submit whose key is already in the table is rejected.
C13_DuplicateRejected ==
    /\ \A i, j \in 1..Len(PendingList) :
           (PendingList[i].DeviceId = PendingList[j].DeviceId
            /\ PendingList[i].UrbId = PendingList[j].UrbId) => i = j
    /\ \A i, j \in 1..Len(SubmitSent) :
           (SubmitSent[i].DeviceId = SubmitSent[j].DeviceId
            /\ SubmitSent[i].UrbId = SubmitSent[j].UrbId) => i = j

\* the driver holds a pending URB entry with this (device, urb id) key
DrvHasPending(d, u) ==
    \E i \in 1..Len(PendingUrbList) :
        PendingUrbList[i].DeviceId = d /\ PendingUrbList[i].UrbId = u

\* C14: a URB_COMPLETE whose (device, urb id) key has no pending entry is
\* dropped: handling it in any state the server can be in completes no
\* request and leaves the pending URBs as they are.
C14_SpuriousCompletionDropped ==
    /\ (impl = "driver" /\ ConnectedSessions # {}) =>
          \A d \in LocalIds, u \in UrbIds, st \in WireStatuses :
              ~DrvHasPending(d, u) =>
                 /\ CompletedAfterFind(PendingUrbList, Completed, u, NtStatusOf(st))
                        = Completed
                 /\ ListAfterFind(PendingUrbList, u) = PendingUrbList
    /\ (impl = "userspace" /\ ConnectedSessions # {}) =>
          \A r \in RemoteIds, u \in UrbIds, st \in WireStatuses :
              ~UsCanComplete(UsDevices, UsDeviceByRemoteId(UsDevices, r), u) =>
                 /\ UsCompletedAfter(UsCompleted, UsDevices,
                        UsDeviceByRemoteId(UsDevices, r), u, st) = UsCompleted
                 /\ UsDevicesAfterComplete(UsDevices,
                        UsDeviceByRemoteId(UsDevices, r), u) = UsDevices

\* driver build: URB u was created and its request has not been completed,
\* whether the driver still queues it or the forwarder has pulled it
DrvOutstanding(u) == UrbDevice[u] # 0 /\ Completed[u] = <<>>

\* C15: cancel on a pending URB takes its entry off the pending table and
\* completes it once with Cancelled, in any state the server can be in.
C15_CancelCompletesPending ==
    /\ impl = "driver" =>
          \A u \in UrbIds :
              DrvOutstanding(u) =>
                 /\ CompletedAfterFind(PendingUrbList, Completed, u,
                                       "STATUS_CANCELLED")[u] = <<"STATUS_CANCELLED">>
                 /\ FindUrbIndex(ListAfterFind(PendingUrbList, u), u) = 0
                 /\ ~\E i \in 1..Len(PendingList) : PendingList[i].UrbId = u
    /\ impl = "userspace" =>
          \A k \in UsKeys :
              k \in UsPendingKeys(UsDevices, k[1]) =>
                 /\ UsCompletedAfter(UsCompleted, UsDevices, k[1], k[2],
                                     VUSB_STATUS_CANCELED)[k] = <<VUSB_STATUS_CANCELED>>
                 /\ k \notin UsPendingKeys(
                        UsDevicesAfterComplete(UsDevices, k[1], k[2]), k[1])

\* the effect of VusbCancelUrb(u) on the driver's pending list and on the
\* completions delivered
DrvCancelled(st, u) ==
    [list |-> ListAfterFind(st.list, u),
     log  |-> CompletedAfterFind(st.list, st.log, u, "STATUS_CANCELLED")]

\* the effect of VusbUsCancelUrb(d, u)
UsCancelled(st, k) ==
    [devs |-> UsDevicesAfterComplete(st.devs, k[1], k[2]),
     log  |-> UsCompletedAfter(st.log, st.devs, k[1], k[2], VUSB_STATUS_CANCELED)]

\* C16: in every state, cancel(d, u) applied twice gives the pending URBs and
\* the delivered completions that applying it once gives, and cancel on a
\* URB that has been completed changes nothing.
C16_CancelIdempotent ==
    LET drv == [list |-> PendingUrbList, log |-> Completed]
        us  == [devs |-> UsDevices, log |-> UsCompleted]
    IN /\ \A u \in UrbIds :
              /\ DrvCancelled(DrvCancelled(drv, u), u) = DrvCancelled(drv, u)
              /\ Completed[u] # <<>> => DrvCancelled(drv, u) = drv
       /\ \A k \in UsKeys :
              /\ UsCancelled(UsCancelled(us, k), k) = UsCancelled(us, k)
              /\ UsCompleted[k] # <<>> => UsCancelled(us, k) = us

\* C16 witness: in the driver build a URB was cancelled while another one is
\* still queued, and a second cancel of the first finds nothing to do
C16_Witness ==
    /\ impl = "driver"
    /\ \E u \in UrbIds :
          /\ Completed[u] = <<"STATUS_CANCELLED">>
          /\ PendingUrbList # <<>>
          /\ DrvCancelled([list |-> PendingUrbList, log |-> Completed], u)
                 = [list |-> PendingUrbList, log |-> Completed]

\* C17: every tracked URB whose deadline has passed is eventually taken off
\* the server pending-URB table and completed, without any completion from
\* the client.
C17_ExpiredEventuallySwept ==
    \A u \in UrbIds :
        (u \in Expired) ~>
            (/\ ~\E i \in 1..Len(PendingList) : PendingList[i].UrbId = u
             /\ Completed[u] # <<>>)

\* place of URB u among the URBs the forwarder pulled, 0 = never pulled
PullIndex(u) ==
    IF \E k \in 1..Len(Pulled) : Pulled[k] = u
    THEN Min({k \in 1..Len(Pulled) : Pulled[k] = u})
    ELSE 0

\* C18: the SUBMIT_URB frames of one device were written in the order in
\* which the forwarder pulled their URBs from the driver, and every frame
\* written belongs to a pulled URB.
C18_FramesInPullOrder ==
    /\ \A i \in 1..Len(SubmitSent) : PullIndex(SubmitSent[i].UrbId) # 0
    /\ \A i, j \in 1..Len(SubmitSent) :
           (i < j /\ SubmitSent[i].DeviceId = SubmitSent[j].DeviceId) =>
               PullIndex(SubmitSent[i].UrbId) < PullIndex(SubmitSent[j].UrbId)

\* C18 witness: two URBs of one device were pulled and both frames written
C18_Witness ==
    /\ Len(SubmitSent) = 2
    /\ SubmitSent[1].DeviceId = SubmitSent[2].DeviceId
    /\ Len(Pulled) = 2

\* C19: every device in a registry has local id = slot index + 1, so the ids
\* lie in 1..MAX_DEVICES and a freed id is the next one handed out.
C19_IdIsSlotPlusOne ==
    /\ \A i \in 0..(MaxDevices - 1) : Devices[i] # 0 => Devices[i] = i + 1
    /\ \A i \in UsSlots : UsDevices[i].Active => UsDevices[i].DeviceId = i + 1

\* C20: in every state in which all registry slots are occupied, the attach
\* response a DEVICE_ATTACH gets has status Error and names no device, and
\* the attach leaves the registry as it is.
C20_FullRegistryAnswersError ==
    /\ (impl = "driver" /\ ConnectedSessions # {} /\ FreeSlots(Devices) = {}) =>
          /\ AttachResponse(Devices).Status = VUSB_STATUS_ERROR
          /\ AttachResponse(Devices).DeviceId = 0
          /\ VusbCreateVirtualDevice(Devices) = Devices
    /\ (impl = "userspace" /\ ConnectedSessions # {}
           /\ FindFreeDeviceSlot(UsDevices) = -1) =>
          /\ UsAttachResponse(UsDevices, NextDeviceId).Status = VUSB_STATUS_ERROR
          /\ UsAttachResponse(UsDevices, NextDeviceId).DeviceId = 0

\* the loop has just answered a DEVICE_LIST request
ListAnswered ==
    /\ Handled
    /\ Request.Command = VUSB_CMD_DEVICE_LIST
    /\ Len(Replies) = 1
    /\ Replies[1].Command = VUSB_CMD_DEVICE_LIST

\* C21: a DEVICE_LIST response is a snapshot of the registry: its count and
\* its entries are exactly the devices that were attached and not detached
\* when the request came, each of them listed once.
C21_ListIsSnapshot ==
    ListAnswered =>
        /\ Replies[1].DeviceCount = Cardinality(Attached)
        /\ Range(Replies[1].Entries) = Attached
        /\ Len(Replies[1].Entries) = Cardinality(Range(Replies[1].Entries))

\* commands of a session that need the CONNECT exchange first, and the
\* frames that answer them
DeviceAnswers ==
    {VUSB_CMD_DEVICE_ATTACH, VUSB_CMD_DEVICE_DETACH, VUSB_CMD_DEVICE_LIST,
     VUSB_CMD_STATUS}

\* C22: a session is established only by a CONNECT answered with
\* CONNECT_RESP; before that the server carries out no DEVICE_ATTACH,
\* DEVICE_DETACH or DEVICE_LIST of the session: no device is attached for it
\* and no such request is answered with success.
C22_NothingBeforeConnect ==
    (Receiver # "ReceiveThread" /\ ~Authenticated) =>
        /\ Attached = {}
        /\ \A i \in 1..Len(Replies) :
              ~(Replies[i].Command \in DeviceAnswers /\
                Replies[i].Status = VUSB_STATUS_SUCCESS)

\* C23: a receiver that reads a header with a bad magic or version treats it
\* as fatal: it hands no further frame to its message switch, it ends the
\* connection, and it sends at most one ERROR frame.
C23_BadHeaderIsFatal ==
    Fatal = "header" =>
        /\ ~Connected
        /\ ~LaterHandled
        /\ Cardinality({i \in 1..Len(Replies) :
                           Replies[i].Command = VUSB_CMD_ERROR}) <= 1

\* C24: a header that declares a payload longer than 65 520 bytes ends the
\* connection and its payload is neither read nor handed to the message
\* switch; a payload of exactly 65 520 bytes is accepted.  The bound is the
\* same in the servers and in the client.
C24_PayloadBound ==
    (Request # NoRequest /\ Request.Valid) =>
        /\ Request.Length > 65520 => (~Connected /\ ~PayloadRead /\ ~Handled)
        /\ Request.Length = 65520 => (PayloadRead /\ Handled)

\* C25: on a frame with an unknown command code the server sends exactly one
\* ERROR frame (NotSupported or InvalidParam) and closes the session; it
\* hands no later frame of the session to its message switch.
C25_UnknownCommandCloses ==
    Receiver # "ReceiveThread" =>
        /\ Fatal = "command" => (~Connected /\ ~LaterHandled)
        /\ (Handled /\ Request.Command \notin ServerSwitchCases) =>
              /\ Len(Replies) = 1
              /\ Replies[1].Command = VUSB_CMD_ERROR
              /\ Replies[1].Status \in
                    {VUSB_STATUS_NOT_SUPPORTED, VUSB_STATUS_INVALID_PARAM}

\* commands of the frames that answer a request
ResponseCommands ==
    {VUSB_CMD_CONNECT, VUSB_CMD_PONG, VUSB_CMD_DEVICE_ATTACH, VUSB_CMD_DEVICE_DETACH,
     VUSB_CMD_STATUS, VUSB_CMD_DEVICE_LIST, VUSB_CMD_ERROR}

\* C26: every response frame (CONNECT_RESP, PONG, DEVICE_ATTACH_RESP, the
\* detach acknowledgement, DEVICE_LIST_RESP, ERROR) carries the sequence
\* number of the request that triggered it.
C26_ResponseEchoesSequence ==
    \A i \in 1..Len(Replies) :
        Replies[i].Command \in ResponseCommands =>
            Replies[i].Sequence = Request.Sequence

\* a DEVICE_LIST request numbered 2 was answered with a list that is not empty
C26_Witness ==
    /\ Handled
    /\ Request.Command = VUSB_CMD_DEVICE_LIST
    /\ Request.Sequence = MaxSequence
    /\ Len(Replies) = 1
    /\ Replies[1].DeviceCount > 0

\* C27: the sequence numbers of the frames a sender originates are strictly
\* increasing in send order and none is used twice, also when several
\* threads of the sender send.
C27_SequenceStrictlyIncreasing ==
    \A i \in 1..Len(SeqSent), j \in 1..Len(SeqSent) :
        i < j => SeqSent[i] < SeqSent[j]

\* the forwarder pulls a URB whose device no session tracks
PullsOrphan ==
    /\ impl = "driver"
    /\ PendingUrbList # <<>>
    /\ Len(Pulled') = Len(Pulled) + 1
    /\ ServerUrbFindClientForDevice(Head(PendingUrbList).DeviceId) = 0

\* C28: when the router pulls a URB whose device has no owning session, the
\* URB is completed at once (NoDevice, actual length 0), no SUBMIT_URB frame
\* is sent and no entry is added to the pending table.
C28_OrphanCompletedAtOnce ==
    [][PullsOrphan =>
          /\ Len(Completed'[Head(PendingUrbList).UrbId]) =
                Len(Completed[Head(PendingUrbList).UrbId]) + 1
          /\ SubmitSent' = SubmitSent
          /\ PendingList' = PendingList]_vars

\* C29: whenever the submitter has observed a successful completion of its
\* URB, the number of data bytes delivered into its buffer equals the
\* completion's actual length if the URB is IN, and is 0 if the URB is OUT
C29_DataMatchesDirection ==
    (Observed.Done /\ Observed.Success) =>
        Observed.Copied = IF Urb.Direction = VUSB_DIR_IN
                          THEN Observed.ActualLength
                          ELSE 0

\* C30: the actual length of a completion delivered to the submitter never
\* exceeds the buffer length of the URB it completes, whatever the
\* URB_COMPLETE frame declared
C30_ActualWithinBuffer ==
    Observed.Done => Observed.ActualLength <= Urb.TransferBufferLength

\* the step in which the client answers the SUBMIT_URB frame it holds
ClientAnswers == Urb.Forwarded /\ ~Urb'.Forwarded

\* C31: a URB_COMPLETE the client sends with a status other than Success
\* (the backend transfer failed) has actual length 0 and carries no data
C31_FailureCarriesNoData ==
    [][(ClientAnswers /\ Head(Wire').Status # VUSB_STATUS_SUCCESS) =>
          /\ Head(Wire').ActualLength = 0
          /\ Head(Wire').Length = UrbCompletePayloadMin]_vars

\* C36: when the client answers a SUBMIT_URB frame it sends exactly one
\* URB_COMPLETE, and that frame carries the device id and the URB id of the
\* SUBMIT_URB frame, whichever way ClientUrbProcess took
C36_OneCompletionSameIds ==
    [][ClientAnswers =>
          /\ Len(Wire') = Len(Wire) + 1
          /\ Head(Wire').DeviceId = Submit.DeviceId
          /\ Head(Wire').UrbId = Submit.UrbId]_vars

\* C32: when a CANCEL_URB for the URB reached the client before the client
\* answered the SUBMIT_URB, the URB_COMPLETE the client sends reports
\* status Cancelled
C32_CancelReportsCancelled ==
    [][(ClientAnswers /\ Cancel = "inbound") =>
          Head(Wire').Status = VUSB_STATUS_CANCELED]_vars

\* the completions the submitter saw for a URB
CompletionsOf(k) == IF impl = "driver" THEN Completed[k] ELSE UsCompleted[k]

\* C33: when the server's shutdown has finished, no session remains and
\* every URB that was pending when it began has been completed exactly once
C33_ShutdownCancelsAll ==
    CleanedUp =>
        /\ ConnectedSessions = {}
        /\ \A k \in AtShutdown : Len(CompletionsOf(k)) = 1

\* C34: every SUBMIT_URB frame of a URB the driver handed to the forwarder,
\* and every URB_COMPLETE frame the client built, has at most
\* VUSB_MAX_PACKET_SIZE bytes, header included
C34_FramesFitMaxSize ==
    \A i \in 1..Len(Frames) : Frames[i].Size <= VUSB_MAX_PACKET_SIZE

\* C35: a COMPLETE_URB or CANCEL_URB that names a URB which GET_PENDING_URB
\* returned and which is not completed yet finds it: the request is completed
\* exactly once, and COMPLETE_URB answers STATUS_SUCCESS
C35_HandedUrbStaysPending ==
    (Ioctl.Code \in {"COMPLETE_URB", "CANCEL_URB"} /\ Ioctl.WasHanded) =>
        /\ Len(Completed[Ioctl.UrbId]) = 1
        /\ Ioctl.Status = "STATUS_SUCCESS"

\* C39: when GET_PENDING_URB hands out a URB, no URB queued before it is
\* still waiting in the queue
C39_HandedInQueueOrder ==
    [][Len(Handed') > Len(Handed) =>
          \A i \in 1..Len(PendingUrbList') :
              PendingUrbList'[i].UrbId > Handed'[Len(Handed')].UrbId]_vars

\* C37: URB_COMPLETE frames arrive on the session Sender only; a URB they
\* complete belongs to a device that Sender owns, every other URB stays pending
C37_OnlyOwnerCompletes ==
    [][/\ \A u \in UrbIds :
              Completed'[u] # Completed[u] =>
                  (UrbDevice[u] # 0 /\ Owner[UrbDevice[u] - 1] = Sender)
       /\ \A k \in UsKeys :
              UsCompleted'[k] # UsCompleted[k] => UsOwns(UsDevices, Sender, k[1])]_vars

\* C38: the session ServerUrbForward records as the owner of a URB, and the
\* session it sends the SUBMIT_URB frame on, is connected at that moment
C38_ForwardOnLiveSession ==
    [][/\ Len(PendingList') > Len(PendingList) =>
              PendingList'[1].Client \in ConnectedSessions
       /\ Len(SubmitSent') > Len(SubmitSent) =>
              SubmitSent'[Len(SubmitSent')].Client \in ConnectedSessions]_vars

\* C40: the bytes a synchronous request of the basic client has read are the
\* response to that request, all of it and nothing else
C40_ReadsOwnResponse ==
    \A i \in 1..Len(LastRead.Got) :
        /\ LastRead.Got[i].frame = LastRead.Sequence
        /\ LastRead.Got[i].off = i - 1
        /\ LastRead.Got[i].units = Len(LastRead.Got)

====
